---- MODULE Spec2Model ----
(***************************************************************************)
(* A model of the structure-sampling and selection subsystem of autoplex:  *)
(*   - reduce_supercell_size      (autoplex/data/phonons/utils.py)          *)
(*   - random_vary_angle, check_distances, scale_cell, std_rattle           *)
(*   - flatten, cur_select, boltzhist_CUR, convexhull_CUR                   *)
(*                                (autoplex/data/common/utils.py)           *)
(* Each function is a small state machine over its local variables; the    *)
(* calls into external libraries (pymatgen, ase, numpy.random, scipy) are   *)
(* nondeterministic choices over the results those libraries can return.    *)
(***************************************************************************)
EXTENDS Integers, Sequences, FiniteSets, TLC

VARIABLES
    \* ---- reduce_supercell_size ----
    sc_pc,          \* position in reduce_supercell_size
    sc_args,        \* its keyword arguments
    structure,      \* lattice lengths (a, b, c) of the input structure
    cst,            \* CubicSupercellTransformation: (minimum, tier) -> num_sites, 0 = AttributeError
    minimum,        \* loop variable of the for loop
    sc_ret,         \* returned value
    \* ---- random_vary_angle ----
    va_pc,                  \* position in random_vary_angle
    va_args,                \* its arguments as passed by the caller
    atoms,                  \* the input structure as an Atoms object
    distorted_angle_cells,  \* list of accepted structures
    generated_structures,   \* counter of accepted structures
    attempts,               \* attempt counter of the current target
    atoms_copy,             \* working copy of the current target
    newcell,                \* angles (cellpar[3:6]) of the cell being built
    abg,                    \* <<alpha, beta, gamma>>: reference angles of the target
    angle_percentage_scale, \* the parameter variable, reassigned at line 291
    min_scale,              \* 1 - angle_percentage_scale
    max_scale,              \* 1 + angle_percentage_scale
    va_ret,                 \* returned list, None while running or after a raise
    \* ---- cur_select ----
    cur_pc,         \* position in cur_select
    cur_args,       \* its arguments
    cs_fatoms,      \* fatoms of cur_select: the pool handed to the worker processes
    pending,        \* indices of fatoms whose worker has not finished yet
    results,        \* starmap's result slots, one per submitted task
    ats,            \* the list starmap returns
    c_scores,       \* leverage scores
    selected,       \* sorted list of selected indices
    cur_ret,        \* returned value
    \* ---- boltzhist_CUR and convexhull_CUR ----
    bz_pc,              \* position in the sampler
    bz_args,            \* the function called and its arguments
    info,               \* id -> labels of that configuration (atoms.info, numbers, volume)
    atoms_list,         \* current content of the list object the caller passed as atoms
    fatoms,             \* current content of the working pool
    fatoms_is_atoms,    \* TRUE when fatoms is the caller's list object itself
    ps,                 \* pressures
    enthalpies,         \* enthalpies (boltzhist_CUR), in quarter units
    des,                \* hull distances (convexhull_CUR), in quarter units
    config_prob,        \* selection weights, up to a common positive factor
    select_num,         \* number of draws
    selected_bolt_ats,  \* configurations drawn so far
    bz_ret,             \* returned value
    \* ---- std_rattle ----
    rt_pc,          \* position in std_rattle
    rt_args,        \* its arguments
    rt_i,           \* loop variable i
    rattle_seed,    \* local rattle_seed, reassigned in the loop
    rattled_xtals,  \* output list
    rt_ret,         \* returned value
    \* ---- scale_cell ----
    scl_pc,                 \* position in scale_cell
    scl_args,               \* its arguments
    scl_structure,          \* the structure object the caller passed
    scale_factors_defined,  \* the factors the loop has still to visit
    distorted_cells,        \* output list
    scl_ret,                 \* returned value
    \* ---- rms_dict ----
    rms_pc, \* position in rms_dict
    x_ref, \* np.array(x_ref)
    x_pred, \* np.array(x_pred)
    error_2, \* squared errors
    rms_ret, \* returned value
    \* ---- Species ----
    sp_pc, \* position in Species.find_element_pairs
    sp_atoms, \* self.atoms, each configuration by its chemical symbols
    sepcies_list, \* the list get_species builds
    sp_at, \* index of the configuration the loop is at
    pairs, \* the list find_element_pairs builds
    sp_ret, \* returned value
    \* ---- CompleteWorkflow.make ----
    cw_pc, \* position in CompleteWorkflow.make
    cw_structure_list, \* structure_list, each structure by its types_of_species
    all_species, \* the set all_species
    cw_species, \* species the first loop has still to visit
    flows, \* the list flows
    isoatoms, \* the list isoatoms
    collect, \* the list collect
    cw_struc_i, \* index of the structure the second loop is at
    cw_ret, \* returned value
    \* ---- PhononDFTMLBenchmarkJob ----
    bj_pc, \* position in PhononDFTMLBenchmarkJob
    bj_structure_list, \* structure_list
    ml_dir, \* ml_dir
    bj_struc_i, \* index of the structure the loop is at
    bj_flows, \* the list flows
    bj_ret \* returned value

scVars == <<sc_pc, sc_args, structure, cst, minimum, sc_ret>>

vaVars == <<va_pc, va_args, atoms, distorted_angle_cells, generated_structures, attempts,
            atoms_copy, newcell, abg, angle_percentage_scale, min_scale, max_scale, va_ret>>

curVars == <<cur_pc, cur_args, cs_fatoms, pending, results, ats, c_scores, selected, cur_ret>>

bzVars == <<bz_pc, bz_args, info, atoms_list, fatoms, fatoms_is_atoms, ps, enthalpies, des,
            config_prob, select_num, selected_bolt_ats, bz_ret>>

rtVars == <<rt_pc, rt_args, rt_i, rattle_seed, rattled_xtals, rt_ret>>

sclVars == <<scl_pc, scl_args, scl_structure, scale_factors_defined, distorted_cells, scl_ret>>

rmsVars == <<rms_pc, x_ref, x_pred, error_2, rms_ret>>

spVars == <<sp_pc, sp_atoms, sepcies_list, sp_at, pairs, sp_ret>>

cwVars == <<cw_pc, cw_structure_list, all_species, cw_species, flows, isoatoms, collect, cw_struc_i, cw_ret>>

bjVars == <<bj_pc, bj_structure_list, ml_dir, bj_struc_i, bj_flows, bj_ret>>

vars == <<scVars, vaVars, curVars, bzVars, rtVars, sclVars, rmsVars, spVars, cwVars, bjVars>>

\* what an action of one function leaves alone: the variables of the others
scOthers == <<vaVars, curVars, bzVars, rtVars, sclVars, rmsVars, spVars, cwVars, bjVars>>

vaOthers == <<scVars, curVars, bzVars, rtVars, sclVars, rmsVars, spVars, cwVars, bjVars>>

curOthers == <<scVars, vaVars, bzVars, rtVars, sclVars, rmsVars, spVars, cwVars, bjVars>>

bzOthers == <<scVars, vaVars, rtVars, sclVars, rmsVars, spVars, cwVars, bjVars>>

rtOthers == <<scVars, vaVars, curVars, bzVars, sclVars, rmsVars, spVars, cwVars, bjVars>>

sclOthers == <<scVars, vaVars, curVars, bzVars, rtVars, rmsVars, spVars, cwVars, bjVars>>

rmsOthers == <<scVars, vaVars, curVars, bzVars, rtVars, sclVars, spVars, cwVars, bjVars>>

spOthers == <<scVars, vaVars, curVars, bzVars, rtVars, sclVars, rmsVars, cwVars, bjVars>>

cwOthers == <<scVars, vaVars, curVars, bzVars, rtVars, sclVars, rmsVars, spVars, bjVars>>

bjOthers == <<scVars, vaVars, curVars, bzVars, rtVars, sclVars, rmsVars, spVars, cwVars>>

(***************************************************************************)
(* Small helpers                                                           *)
(***************************************************************************)
Min2(a, b) == IF a < b THEN a ELSE b

Max2(a, b) == IF a > b THEN a ELSE b

\* the value of a function that ended without a return statement
None == [kind |-> "None"]

\* a returned list
ListVal(items) == [kind |-> "list", items |-> items]

(***************************************************************************)
(* reduce_supercell_size                                                   *)
(***************************************************************************)
\* largest length used for min_length / fallback_min_length in the model
MaxLength == 3

Tiers == {1, 2, 3}

\* num_sites values the external transformation may produce (0: it raised AttributeError)
SiteCounts == {0, 1, 2}

\* (min_atoms, max_atoms) windows: 1 is too small for <<2, 2>>, 2 too large for <<1, 1>>
AtomWindows == {<<1, 1>>, <<2, 2>>}

Lattices == {<<1, 2, 5>>, <<3, 3, 3>>}

\* range(min_length, fallback_min_length, -1) as the set of its values
TrialLengths(min_length, fallback_min_length) ==
    {m \in (fallback_min_length + 1)..min_length : TRUE}

\* min_atoms <= new_structure.num_sites <= max_atoms
InWindowMaxOnly(n, min_atoms, max_atoms) == n <= max_atoms

InWindow(n, min_atoms, max_atoms) == min_atoms <= n /\ n <= max_atoms

\* np.max((np.floor(max_length / a), 1))
Factor(max_length, a) == Max2(max_length \div a, 1)

FallbackMatrix(max_length, abc) ==
    [kind |-> "fallback",
     diag |-> <<Factor(max_length, abc[1]), Factor(max_length, abc[2]), Factor(max_length, abc[3])>>]

TierMatrix(t, m, n) == [kind |-> "tier", tier |-> t, minimum |-> m, num_sites |-> n]

ScStart ==
    /\ sc_pc = "for"
    /\ \E ml \in 1..MaxLength, fb \in 1..MaxLength, w \in AtomWindows :
          sc_args = [min_length |-> ml, fallback_min_length |-> fb,
                     max_length |-> MaxLength + 1,
                     min_atoms |-> w[1], max_atoms |-> w[2]]
    /\ structure \in Lattices
    /\ cst \in [TrialLengths(sc_args.min_length, sc_args.fallback_min_length) \X Tiers -> SiteCounts]
    /\ minimum = 0
    /\ sc_ret = None

\* for minimum in range(min_length, fallback_min_length, -1): the loop is entered
\* once at most, because its body always returns; an empty range falls off the
\* end of the function, which returns None.
ScFor ==
    /\ sc_pc = "for"
    /\ IF TrialLengths(sc_args.min_length, sc_args.fallback_min_length) # {}
       THEN /\ minimum' = sc_args.min_length
            /\ sc_pc' = "tier1"
            /\ sc_ret' = sc_ret
       ELSE /\ sc_pc' = "done"
            /\ sc_ret' = None
            /\ minimum' = minimum
    /\ UNCHANGED <<sc_args, structure, cst>>
    /\ UNCHANGED scOthers

\* one try block: build the transformation, apply it, return the matrix when the
\* atom count is in the window, raise AttributeError (caught by the enclosing
\* except) otherwise
ScTier(t, next) ==
    /\ sc_pc = "tier" \o ToString(t)
    /\ LET n == cst[<<minimum, t>>] IN
       IF n # 0 /\ InWindow(n, sc_args.min_atoms, sc_args.max_atoms)
       THEN /\ sc_ret' = TierMatrix(t, minimum, n)
            /\ sc_pc' = "done"
       ELSE /\ sc_pc' = next
            /\ sc_ret' = sc_ret
    /\ UNCHANGED <<sc_args, structure, cst, minimum>>
    /\ UNCHANGED scOthers

ScTier1 == ScTier(1, "tier2")

ScTier2 == ScTier(2, "tier3")

ScTier3 == ScTier(3, "fallback")

\* the diagonal scaling, still inside the body of the for loop
ScFallback ==
    /\ sc_pc = "fallback"
    /\ sc_ret' = FallbackMatrix(sc_args.max_length, structure)
    /\ sc_pc' = "done"
    /\ UNCHANGED <<sc_args, structure, cst, minimum>>
    /\ UNCHANGED scOthers

ScNext == ScFor \/ ScTier1 \/ ScTier2 \/ ScTier3 \/ ScFallback

\* reduce_supercell_size is not running
ScIdle ==
    /\ sc_pc = "idle"
    /\ sc_args = None
    /\ structure = <<>>
    /\ cst = <<>>
    /\ minimum = 0
    /\ sc_ret = None

(***************************************************************************)
(* check_distances and random_vary_angle                                   *)
(***************************************************************************)
\* largest n_structures of a call
MaxStructures == 2

\* largest angle_max_attempts of a call
MaxAttempts == 2

\* angle_percentage_scale values passed by callers, in percent
ScalePercents == {0, 1}

\* cell angles (alpha, beta, gamma) of the input structures
CellAngles == {<<60, 90, 120>>}

\* minimum-image distances a pair of atoms can have, and min_distance values
Distances == {1, 2, 3}

MinDistances == {2}

\* the input structures have two atoms, so one pair
AtomIndices == {1, 2}

\* w_angle values: the default [0, 1, 2] and two proper subsets
WAngles == {<<0, 1, 2>>, <<2>>, <<1, 2>>}

\* an Atoms object / Structure: its three cell angles and the minimum-image
\* distance of every pair of atoms
MkAtoms(angles, dists) == [angles |-> angles, dists |-> dists]

PairDists == [{p \in SUBSET AtomIndices : Cardinality(p) = 2} -> Distances]

\* atoms.get_distances(i, indices, mic=True) for one j of indices
GetDistance(s, i, j) == s.dists[{i, j}]

\* check_distances: False as soon as one distance is < min_distance
check_distances_always(s, min_distance) == TRUE

check_distances(s, min_distance) ==
    \A i \in AtomIndices : \A j \in AtomIndices \ {i} :
        ~(GetDistance(s, i, j) < min_distance)

\* a rational number num / den, den > 0
Rat(num, den) == [num |-> num, den |-> den]

\* int(angle * scale) for angle >= 0 and scale >= 0
IntTimes(angle, scale) == (angle * scale.num) \div scale.den

\* angle_percentage_scale / 100 with the caller's value (not reassigned)
DivideBy100Once(scale, s0) == Rat(s0, 100)

\* angle_percentage_scale = angle_percentage_scale / 100
DivideBy100(scale, s0) == Rat(scale.num, scale.den * 100)

\* for wang, newv in zip(w_angle, newvalues): newcell[wang + 3] = newv
RECURSIVE ZipAssign(_, _, _, _)
ZipAssign(cell, w_angle, newvalues, k) ==
    IF k > Len(w_angle) \/ k > Len(newvalues) THEN cell
    ELSE ZipAssign([cell EXCEPT ![w_angle[k] + 1] = newvalues[k]], w_angle, newvalues, k + 1)

\* random.randint(int(angle * min_scale), int(angle * max_scale)): both ends included
RandInt(angle, lo_scale, hi_scale) == IntTimes(angle, lo_scale)..IntTimes(angle, hi_scale)

VaStart ==
    /\ va_pc = "while"
    /\ \E md \in MinDistances, s \in ScalePercents, w \in WAngles,
          n \in 0..MaxStructures, m \in 0..MaxAttempts :
          va_args = [min_distance |-> md, angle_percentage_scale |-> s, w_angle |-> w,
                     n_structures |-> n, angle_max_attempts |-> m]
    /\ \E a \in CellAngles, d \in PairDists : atoms = MkAtoms(a, d)
    /\ distorted_angle_cells = <<>>
    /\ generated_structures = 0
    /\ attempts = 0
    /\ atoms_copy = None
    /\ newcell = <<>>
    /\ abg = <<>>
    /\ angle_percentage_scale = Rat(va_args.angle_percentage_scale, 1)
    /\ min_scale = None
    /\ max_scale = None
    /\ va_ret = None

VaIdle ==
    /\ va_pc = "idle"
    /\ va_args = None
    /\ atoms = None
    /\ distorted_angle_cells = <<>>
    /\ generated_structures = 0
    /\ attempts = 0
    /\ atoms_copy = None
    /\ newcell = <<>>
    /\ abg = <<>>
    /\ angle_percentage_scale = None
    /\ min_scale = None
    /\ max_scale = None
    /\ va_ret = None

\* while generated_structures < n_structures: set up the next target
\* (lines 269-293), or leave the loop and return the list (line 322)
VaWhile ==
    /\ va_pc = "while"
    /\ IF generated_structures < va_args.n_structures
       THEN LET scale == DivideBy100(angle_percentage_scale, va_args.angle_percentage_scale) IN
            /\ attempts' = 0
            /\ atoms_copy' = atoms
            \* scale_cell(..., [1.03]) stretches the lengths and keeps the angles
            /\ newcell' = atoms.angles
            /\ abg' = atoms.angles
            /\ angle_percentage_scale' = scale
            /\ min_scale' = Rat(scale.den - scale.num, scale.den)
            /\ max_scale' = Rat(scale.den + scale.num, scale.den)
            /\ va_pc' = "inner"
            /\ va_ret' = va_ret
       ELSE /\ va_ret' = ListVal(distorted_angle_cells)
            /\ va_pc' = "returned"
            /\ UNCHANGED <<attempts, atoms_copy, newcell, abg, angle_percentage_scale,
                           min_scale, max_scale>>
    /\ UNCHANGED <<va_args, atoms, distorted_angle_cells, generated_structures>>
    /\ UNCHANGED vaOthers

\* one pass of the inner loop (lines 295-316): draw the three angles, write the
\* selected ones into newcell, rescale the atoms, test the distances
VaAttempt ==
    /\ va_pc = "inner"
    /\ attempts < va_args.angle_max_attempts
    /\ attempts' = attempts + 1
    /\ \E new_alpha \in RandInt(abg[1], min_scale, max_scale),
          new_beta \in RandInt(abg[2], min_scale, max_scale),
          new_gamma \in RandInt(abg[3], min_scale, max_scale),
          d \in PairDists :
          LET newvalues == <<new_alpha, new_beta, new_gamma>>
              cell == ZipAssign(newcell, va_args.w_angle, newvalues, 1)
              \* atoms_copy.set_cell(newcell, scale_atoms=True)
              moved == MkAtoms(cell, d)
          IN  /\ newcell' = cell
              /\ atoms_copy' = moved
              /\ IF check_distances(moved, va_args.min_distance)
                 THEN /\ distorted_angle_cells' = Append(distorted_angle_cells, moved)
                      /\ generated_structures' = generated_structures + 1
                      /\ va_pc' = "while"
                 ELSE /\ UNCHANGED <<distorted_angle_cells, generated_structures>>
                      /\ va_pc' = "inner"
    /\ UNCHANGED <<va_args, atoms, abg, angle_percentage_scale, min_scale, max_scale, va_ret>>
    /\ UNCHANGED vaOthers

\* a variant that gives up on the target and goes on with the next one
VaExhaustedSkips ==
    /\ va_pc = "inner"
    /\ ~(attempts < va_args.angle_max_attempts)
    /\ generated_structures' = generated_structures + 1
    /\ va_pc' = "while"
    /\ UNCHANGED <<va_args, atoms, distorted_angle_cells, attempts,
                   atoms_copy, newcell, abg, angle_percentage_scale, min_scale, max_scale,
                   va_ret>>
    /\ UNCHANGED vaOthers

\* the else branch of the inner while: the attempts are used up (lines 317-320)
VaExhausted ==
    /\ va_pc = "inner"
    /\ ~(attempts < va_args.angle_max_attempts)
    /\ va_pc' = "RuntimeError"
    /\ UNCHANGED <<va_args, atoms, distorted_angle_cells, generated_structures, attempts,
                   atoms_copy, newcell, abg, angle_percentage_scale, min_scale, max_scale,
                   va_ret>>
    /\ UNCHANGED vaOthers

VaNext == VaWhile \/ VaAttempt \/ VaExhausted

(***************************************************************************)
(* Configuration pools and flatten                                         *)
(***************************************************************************)
\* largest number of configurations in a pool
MaxPool == 3

\* an ase.Atoms object: id names the configuration, gen tells the caller's
\* object (0) from the copy a worker process sends back (1); descriptor_vec
\* says whether info["descriptor_vec"] is set
AtomsObj(i) == [kind |-> "Atoms", id |-> i, gen |-> 0, descriptor_vec |-> FALSE]

AtomsRange(a, b) == [k \in 1..(b - a + 1) |-> AtomsObj(a + k - 1)]

\* flat pools, pools of two sub-pools, and pools whose first element is a
\* configuration and whose second is a sub-pool
FlatPools == {AtomsRange(1, n) : n \in 0..MaxPool}

NestedPools ==
    {<<ListVal(AtomsRange(1, j)), ListVal(AtomsRange(j + 1, n))>> :
        j \in 0..1, n \in 1..MaxPool}
    \cup {<<ListVal(<<>>)>>}

MixedPools == {<<AtomsObj(1), ListVal(AtomsRange(2, n))>> : n \in 2..MaxPool}

Pools == FlatPools \cup NestedPools \cup MixedPools

\* flatten(atoms_object, recursive=True): descends into lists, not into Atoms
RECURSIVE Flatten(_)
Flatten(atoms_object) ==
    IF Len(atoms_object) = 0 THEN <<>>
    ELSE LET element == Head(atoms_object) IN
         (IF element.kind = "list" THEN Flatten(element.items) ELSE <<element>>)
             \o Flatten(Tail(atoms_object))

\* isinstance(atoms[0], list) decides between flatten(atoms) and atoms itself
FlattenIfNested(pool) == IF pool[1].kind = "list" THEN Flatten(pool) ELSE pool

(***************************************************************************)
(* cur_select                                                              *)
(***************************************************************************)
\* length of one descriptor vector
DescLen == 3

KernelExps == {0, 4}

\* unnormalised leverage scores the decomposition may give one configuration
Scores == {0, 1, 2}

RECURSIVE SumSeq(_)
SumSeq(q) == IF Len(q) = 0 THEN 0 ELSE Head(q) + SumSeq(Tail(q))

SetMin(S) == CHOOSE x \in S : \A y \in S : x <= y

\* sorted(...) of a collection of distinct integers
RECURSIVE SortedSeq(_)
SortedSeq(S) == IF S = {} THEN <<>> ELSE <<SetMin(S)>> \o SortedSeq(S \ {SetMin(S)})

Range(q) == {q[k] : k \in DOMAIN q}

\* the permutations np.argsort may return: ascending scores, ties in any order
ArgSorts(scores) ==
    {perm \in [DOMAIN scores -> DOMAIN scores] :
        /\ \A a, b \in DOMAIN scores : a # b => perm[a] # perm[b]
        /\ \A a, b \in DOMAIN scores : a < b => scores[perm[a]] <= scores[perm[b]]}

\* the Python slice q[-k:] for k >= 0; q[-0:] is q[0:], the whole sequence
SliceLastK(q, k) == SubSeq(q, Max2(1, Len(q) - k + 1), Len(q))

SliceLast(q, k) == IF k = 0 THEN q ELSE SubSeq(q, Max2(1, Len(q) - k + 1), Len(q))

\* min(m.shape): each descriptor_vec is a 1 x DescLen array (hence the squeeze
\* at lines 976-977), so at_descs has shape (DescLen, 1, n); m is the n x n
\* kernel matrix when kernel_exp > 0 and at_descs itself otherwise
MinShape(kernel_exp, n) == IF kernel_exp > 0 THEN n ELSE SetMin({DescLen, 1, n})

\* the number of singular vectors asked of svds
SvdRank(select_nums, kernel_exp, n) ==
    Min2(Max2(1, select_nums \div 2), MinShape(kernel_exp, n) - 1)

CurStart ==
    /\ cur_pc = "entry"
    /\ \E pool \in Pools, ke \in KernelExps, k \in 0..(MaxPool + 1), st \in BOOLEAN :
          cur_args = [atoms |-> pool, kernel_exp |-> ke, select_nums |-> k, stochastic |-> st]
    /\ cs_fatoms = <<>>
    /\ pending = {}
    /\ results = <<>>
    /\ ats = <<>>
    /\ c_scores = <<>>
    /\ selected = <<>>
    /\ cur_ret = None

CurIdle ==
    /\ cur_pc = "idle"
    /\ cur_args = None
    /\ cs_fatoms = <<>>
    /\ pending = {}
    /\ results = <<>>
    /\ ats = <<>>
    /\ c_scores = <<>>
    /\ selected = <<>>
    /\ cur_ret = None

\* lines 962-970: atoms[0] is read first (IndexError on an empty list), the
\* pool is flattened when its first element is a list, and one task per
\* element is submitted to the process pool
CurEntry ==
    /\ cur_pc = "entry"
    /\ IF Len(cur_args.atoms) = 0
       THEN /\ cur_pc' = "IndexError"
            /\ UNCHANGED <<cs_fatoms, pending, results>>
       ELSE LET flat == FlattenIfNested(cur_args.atoms) IN
            /\ cs_fatoms' = flat
            /\ pending' = DOMAIN flat
            /\ results' = [k \in DOMAIN flat |-> None]
            /\ cur_pc' = "starmap"
    /\ UNCHANGED <<cur_args, ats, c_scores, selected, cur_ret>>
    /\ UNCHANGED curOthers

\* a variant in which a finished task is stored in the first free place of
\* the result list, the order of completion
CurWorkerCompletionOrder(i) ==
    /\ cur_pc = "starmap"
    /\ i \in pending
    /\ cs_fatoms[i].kind = "Atoms"
    /\ LET free == SetMin({k \in DOMAIN results : results[k] = None}) IN
          results' = [results EXCEPT ![free] =
                         [cs_fatoms[i] EXCEPT !.gen = 1, !.descriptor_vec = TRUE]]
    /\ pending' = pending \ {i}
    /\ UNCHANGED <<cur_pc, cur_args, cs_fatoms, ats, c_scores, selected, cur_ret>>
    /\ UNCHANGED curOthers

\* parallel_calc_descriptor_vec in a worker process: the worker works on a
\* pickled copy and sends the copy back with info["descriptor_vec"] set; the
\* descriptor library raises on an element that is not an Atoms object, and
\* starmap re-raises that in the parent
CurWorker(i) ==
    /\ cur_pc = "starmap"
    /\ i \in pending
    /\ IF cs_fatoms[i].kind = "Atoms"
       THEN /\ results' = [results EXCEPT ![i] =
                              [cs_fatoms[i] EXCEPT !.gen = 1, !.descriptor_vec = TRUE]]
            /\ pending' = pending \ {i}
            /\ cur_pc' = cur_pc
       ELSE /\ cur_pc' = "DescriptorError"
            /\ UNCHANGED <<results, pending>>
    /\ UNCHANGED <<cur_args, cs_fatoms, ats, c_scores, selected, cur_ret>>
    /\ UNCHANGED curOthers

\* starmap returns once every task is done, results in submission order; the
\* function ends without a return statement when ats is empty (line 972)
CurGather ==
    /\ cur_pc = "starmap"
    /\ pending = {}
    /\ ats' = results
    /\ IF Len(results) # 0
       THEN cur_pc' = "svd" /\ cur_ret' = cur_ret
       ELSE cur_pc' = "returned" /\ cur_ret' = None
    /\ UNCHANGED <<cur_args, cs_fatoms, pending, results, c_scores, selected>>
    /\ UNCHANGED curOthers

\* lines 974-994: svds raises ValueError unless 1 <= k < min(m.shape); the
\* scores it leads to are non-negative and sum to 1 (here: to SumSeq(c_scores))
CurDecompose ==
    /\ cur_pc = "svd"
    /\ IF SvdRank(cur_args.select_nums, cur_args.kernel_exp, Len(ats)) < 1
       THEN /\ cur_pc' = "ValueError"
            /\ c_scores' = c_scores
       ELSE /\ \E c \in [DOMAIN ats -> Scores] :
                  /\ SumSeq(c) > 0
                  /\ c_scores' = c
            /\ cur_pc' = "select"
    /\ UNCHANGED <<cur_args, cs_fatoms, pending, results, ats, selected, cur_ret>>
    /\ UNCHANGED curOthers

\* a variant of CurSelect that returns the selected copies with the
\* descriptor the workers stored on them
CurSelectKeepsDescriptor ==
    /\ cur_pc = "select"
    /\ LET n == Len(ats)
           k == cur_args.select_nums
           nonzero == {i \in 1..n : c_scores[i] > 0}
       IN  IF k > n \/ Cardinality(nonzero) < k
           THEN /\ cur_pc' = "ValueError"
                /\ UNCHANGED <<selected, cur_ret>>
           ELSE \E S \in SUBSET nonzero :
                   /\ Cardinality(S) = k
                   /\ selected' = SortedSeq(S)
                   /\ cur_ret' = ListVal([j \in 1..k |-> ats[SortedSeq(S)[j]]])
                   /\ cur_pc' = "returned"
    /\ UNCHANGED <<cur_args, cs_fatoms, pending, results, ats, c_scores>>
    /\ UNCHANGED curOthers

\* lines 995-1006: np.random.choice(range(n), size, replace=False, p) raises
\* ValueError when size > n or when fewer than size entries of p are non-zero
CurSelect ==
    /\ cur_pc = "select"
    /\ LET n == Len(ats)
           k == cur_args.select_nums
           nonzero == {i \in 1..n : c_scores[i] > 0}
           finish(sel) ==
               /\ selected' = sel
               /\ cur_ret' = ListVal([j \in DOMAIN sel |->
                                         [ats[sel[j]] EXCEPT !.descriptor_vec = FALSE]])
               /\ cur_pc' = "returned"
       IN  IF cur_args.stochastic
           THEN IF k > n \/ Cardinality(nonzero) < k
                THEN /\ cur_pc' = "ValueError"
                     /\ UNCHANGED <<selected, cur_ret>>
                ELSE \E S \in SUBSET nonzero :
                        /\ Cardinality(S) = k
                        /\ finish(SortedSeq(S))
           ELSE \E perm \in ArgSorts(c_scores) :
                    finish(SortedSeq(Range(SliceLast(perm, k))))
    /\ UNCHANGED <<cur_args, cs_fatoms, pending, results, ats, c_scores>>
    /\ UNCHANGED curOthers

CurNext == CurEntry \/ (\E i \in 1..(MaxPool + 1) : CurWorker(i)) \/ CurGather
              \/ CurDecompose \/ CurSelect

(***************************************************************************)
(* boltzhist_CUR and convexhull_CUR                                        *)
(* Energies are integers counted in quarter units, so that the two         *)
(* divisions by the atom count (1 or 2 atoms) are exact.                   *)
(***************************************************************************)
\* quarter units per unit of energy
HScale == 4

\* ase.units.GPa, in the units the pressures of the model are given in
GPa == 1

\* number of bins of np.histogram
NumBins == 10

\* get_atomic_numbers() of configuration i: one Si atom, or one Si and one O
Numbers(i) == IF i % 2 = 0 THEN <<14, 8>> ELSE <<14>>

\* isolated-atom energies by atomic number
IsolEs == [z \in {8, 14} |-> IF z = 8 THEN -2 ELSE -1]

TableNames == {"spread", "paired", "nopressure", "noenergy"}

\* the keys of atoms.info an energy is stored under
EnergyLabels == {"energy", "REF_energy"}

\* the labels of configuration i: "spread" gives pairwise different
\* enthalpies, "paired" gives the odd configurations one common enthalpy,
\* "nopressure" leaves configuration 2 without info["pressure"], "noenergy"
\* leaves configuration 1 without info["energy"], "refonly" gives every
\* configuration info["REF_energy"] and none info["energy"], "norefenergy"
\* gives every configuration info["energy"] and none info["REF_energy"]
InfoOf(table, i) ==
    [numbers      |-> Numbers(i),
     volume       |-> 2,
     energy       |-> IF table = "paired"
                      THEN (IF i % 2 = 0 THEN -5 ELSE -2)
                      ELSE (IF i % 2 = 0 THEN -3 - 2 * i ELSE -1 - i),
     has_energy   |-> ~(table = "noenergy" /\ i = 1) /\ table # "refonly",
     REF_energy   |-> -1 - 3 * Len(Numbers(i)),
     has_REF_energy |-> table # "norefenergy",
     pressure     |-> IF table # "paired" /\ i = 1 THEN 1 ELSE 0,
     has_pressure |-> ~(table = "nopressure" /\ i = 2),
     hull_distance |-> IF table = "paired" THEN (IF i % 2 = 0 THEN HScale ELSE 0)
                       ELSE HScale * (i - 1)]

InfoTable(table) == [i \in 1..(MaxPool + 1) |-> InfoOf(table, i)]

\* the calls: function, labels of the pool, P, kT, isol_es and scheme, with
\* the default energy_label of the function unless said otherwise.  kT = 1
\* stands for the temperature at which the Boltzmann factor halves per
\* quarter unit of energy
Call(fn, table, P, kT, isol_es, scheme) ==
    [fn |-> fn, table |-> table, P |-> P, kT |-> kT, isol_es |-> isol_es, scheme |-> scheme,
     energy_label |-> IF fn = "boltzhist_CUR" THEN "energy" ELSE "REF_energy"]

Scenarios ==
    {Call("boltzhist_CUR", t, "None", kT, "given", "none") :
        t \in TableNames, kT \in {0, 1}}
    \cup {Call("boltzhist_CUR", "nopressure", "list", 1, "given", "none"),
          Call("boltzhist_CUR", "spread", "None", 1, "None", "none")}
    \cup {[Call("boltzhist_CUR", t, "None", 1, "given", "none")
               EXCEPT !.energy_label = "REF_energy"] :
             t \in {"spread", "refonly", "norefenergy"}}
    \cup {Call("convexhull_CUR", t, "None", kT, "given", "linear-hull") :
        t \in {"spread", "paired"}, kT \in {0, 1}}
    \cup {Call("convexhull_CUR", "spread", "None", 1, "given", "volume-stoichiometry"),
          Call("convexhull_CUR", "spread", "None", 1, "given", "other"),
          Call("convexhull_CUR", "spread", "None", 1, "None", "linear-hull")}

BoltFracs == {Rat(0, 1), Rat(1, 2), Rat(1, 1), Rat(3, 2)}

BoltMaxNums == {0, 1, MaxPool + 1}

CurNums == {0, 1, MaxPool + 1}

\* round(x) of Python 3 for x = num/den >= 0: to nearest, ties to even
PyRound(num, den) ==
    LET q == num \div den
        r == num % den
    IN  IF 2 * r < den THEN q
        ELSE IF 2 * r > den THEN q + 1
        ELSE IF q % 2 = 0 THEN q ELSE q + 1

SetMax(S) == CHOOSE x \in S : \A y \in S : x >= y

RECURSIVE Fact(_)
Fact(n) == IF n <= 0 THEN 1 ELSE n * Fact(n - 1)

RECURSIVE Pow2(_)
Pow2(n) == IF n <= 0 THEN 1 ELSE 2 * Pow2(n - 1)

\* del q[i] and np.delete(q, i), i counted from 1
KeepAll(q, i) == q

DeleteAt(q, i) == [k \in 1..(Len(q) - 1) |-> IF k < i THEN q[k] ELSE q[k + 1]]

\* lines 1098-1102: ((info['energy'] - sum of isol_es) / len(atom)
\*                   + volume * ps[i] * GPa) / len(at), in quarter units
Enthalpy(at_info, p) ==
    LET natoms == Len(at_info.numbers)
        isol == SumSeq([k \in 1..natoms |-> IsolEs[at_info.numbers[k]]])
        ener_relative == ((at_info.energy - isol) * HScale) \div natoms
    IN  (ener_relative + at_info.volume * p * GPa * HScale) \div natoms

\* np.histogram(values): the range is [min, max], widened by half a unit on
\* each side when min = max
HistLo(values) ==
    LET lo == SetMin(Range(values)) hi == SetMax(Range(values))
    IN  IF lo = hi THEN lo - HScale \div 2 ELSE lo

HistHi(values) ==
    LET lo == SetMin(Range(values)) hi == SetMax(Range(values))
    IN  IF lo = hi THEN hi + HScale \div 2 ELSE hi

\* the bin np.histogram counts x in (bins counted from 0; the last bin is closed)
HistBin(values, x) ==
    Min2(NumBins - 1,
         (NumBins * (x - HistLo(values))) \div (HistHi(values) - HistLo(values)))

HistCount(values, b) == Cardinality({k \in DOMAIN values : HistBin(values, values[k]) = b})

\* a variant of BinOf without the step back from the number of bins
BinOfUnclamped(values, H) ==
    Cardinality({j \in 1..NumBins :
                    NumBins * HistLo(values) + j * (HistHi(values) - HistLo(values))
                        <= NumBins * H})

\* lines 1110-1112: searchsorted(edges[1:], H, side='right'), the number of
\* upper bin edges <= H, lowered by one when it is the number of bins
BinOf(values, H) ==
    LET lo == HistLo(values)
        hi == HistHi(values)
        bin_i == Cardinality({j \in 1..NumBins :
                                 NumBins * lo + j * (hi - lo) <= NumBins * H})
    IN  IF bin_i = NumBins THEN bin_i - 1 ELSE bin_i

\* lines 1109-1119 and 1246-1256: 1/occupancy of the bin, times
\* exp(-(H - min)/kT) when kT > 0; every weight is multiplied here by the same
\* positive factor Fact(n) * 2^(max - min), which the normalisation of line
\* 1131 divides out
ConfigProb(values, kT) ==
    LET n == Len(values)
        hi == SetMax(Range(values))
    IN  [k \in 1..n |->
            LET occupancy == HistCount(values, BinOf(values, values[k]))
                p == IF occupancy > 0 THEN Fact(n) \div occupancy ELSE 0
            IN  IF kT > 0 THEN p * Pow2(hi - values[k]) ELSE p]

\* lines 1121-1126
SelectNum(bolt_frac, n, bolt_max_num) ==
    LET rounded == PyRound(bolt_frac.num * n, bolt_frac.den)
    IN  IF rounded < bolt_max_num THEN rounded ELSE bolt_max_num

\* np.cumsum
CumSum(q) == [k \in DOMAIN q |-> SumSeq(SubSeq(q, 1, k))]

\* np.searchsorted(a, v), side 'left', counted from 1
SearchSorted(a, v) == 1 + Cardinality({k \in DOMAIN a : a[k] < v})

\* lines 1131-1134: the indices (counted from 1) that some rv in [0, 1) gives.
\* rv takes one value per interval the cumulated weights cut [0, 1) into: 0,
\* every cumulated weight below the total, and a point just below every
\* cumulated weight; rv and the cumulated weights are counted in halves of
\* 1/sum.  A zero sum makes every weight nan, and searchsorted gives 0 then,
\* as it does for an empty array.
DrawIndices(weights) ==
    LET total == SumSeq(weights)
        cumul_prob == [k \in DOMAIN weights |-> 2 * CumSum(weights)[k]]
        rvs == {0} \cup {c - 1 : c \in Range(cumul_prob) \ {0}}
                   \cup {c \in Range(cumul_prob) : c < 2 * total}
    IN  IF Len(weights) = 0 \/ total = 0 THEN {1}
        ELSE {SearchSorted(cumul_prob, rv) : rv \in rvs}

BzStart ==
    /\ bz_pc = "entry"
    /\ \E sc \in Scenarios, pool \in Pools, bf \in BoltFracs,
          bm \in BoltMaxNums, cn \in CurNums :
          /\ bz_args = [fn |-> sc.fn, atoms |-> pool, isol_es |-> sc.isol_es,
                        bolt_frac |-> bf, bolt_max_num |-> bm, cur_num |-> cn,
                        kernel_exp |-> 4, kT |-> sc.kT, scheme |-> sc.scheme,
                        energy_label |-> sc.energy_label,
                        P |-> IF sc.P = "None" THEN None
                              ELSE ListVal([k \in 1..Len(Flatten(pool)) |-> 1])]
          /\ info = InfoTable(sc.table)
          /\ atoms_list = pool
    /\ fatoms = <<>>
    /\ fatoms_is_atoms = FALSE
    /\ ps = <<>>
    /\ enthalpies = <<>>
    /\ des = <<>>
    /\ config_prob = <<>>
    /\ select_num = 0
    /\ selected_bolt_ats = <<>>
    /\ bz_ret = None

BzIdle ==
    /\ bz_pc = "idle"
    /\ bz_args = None
    /\ info = <<>>
    /\ atoms_list = <<>>
    /\ fatoms = <<>>
    /\ fatoms_is_atoms = FALSE
    /\ ps = <<>>
    /\ enthalpies = <<>>
    /\ des = <<>>
    /\ config_prob = <<>>
    /\ select_num = 0
    /\ selected_bolt_ats = <<>>
    /\ bz_ret = None

\* lines 1077-1081 and 1208-1212: atoms[0] raises IndexError on an empty list;
\* a nested pool is flattened into a new list, any other pool is used as it is
BzFlatten ==
    /\ bz_pc = "entry"
    /\ IF Len(atoms_list) = 0
       THEN /\ bz_pc' = "IndexError"
            /\ UNCHANGED <<fatoms, fatoms_is_atoms>>
       ELSE /\ fatoms' = FlattenIfNested(atoms_list)
            /\ fatoms_is_atoms' = (atoms_list[1].kind # "list")
            /\ bz_pc' = IF bz_args.fn = "boltzhist_CUR" THEN "pressures" ELSE "hull"
    /\ UNCHANGED <<bz_args, info, atoms_list, ps, enthalpies, des, config_prob,
                   select_num, selected_bolt_ats, bz_ret>>
    /\ UNCHANGED <<curVars, bzOthers>>

\* a variant that takes a missing info['pressure'] as 0
BzPressuresDefaultZero ==
    /\ bz_pc = "pressures"
    /\ ps' = IF bz_args.P # None THEN bz_args.P.items
             ELSE [k \in DOMAIN fatoms |->
                      IF fatoms[k].kind = "Atoms" /\ info[fatoms[k].id].has_pressure
                      THEN info[fatoms[k].id].pressure ELSE 0]
    /\ bz_pc' = "enthalpies"
    /\ UNCHANGED <<bz_args, info, atoms_list, fatoms, fatoms_is_atoms, enthalpies, des,
                   config_prob, select_num, selected_bolt_ats, bz_ret>>
    /\ UNCHANGED <<curVars, bzOthers>>

\* lines 1083-1093: without P every element must have info['pressure'];
\* whatever goes wrong in reading it becomes RuntimeError
BzPressures ==
    /\ bz_pc = "pressures"
    /\ IF bz_args.P = None
       THEN IF \E k \in DOMAIN fatoms :
                   \/ fatoms[k].kind # "Atoms"
                   \/ ~info[fatoms[k].id].has_pressure
            THEN bz_pc' = "RuntimeError" /\ ps' = ps
            ELSE /\ ps' = [k \in DOMAIN fatoms |-> info[fatoms[k].id].pressure]
                 /\ bz_pc' = "enthalpies"
       ELSE /\ ps' = bz_args.P.items
            /\ bz_pc' = "enthalpies"
    /\ UNCHANGED <<bz_args, info, atoms_list, fatoms, fatoms_is_atoms, enthalpies, des,
                   config_prob, select_num, selected_bolt_ats, bz_ret>>
    /\ UNCHANGED <<curVars, bzOthers>>

\* lines 1095-1126: enthalpies, weights and the number of draws.  A list among
\* the elements has no get_atomic_numbers (AttributeError); the first element
\* is asked for info['energy'] (KeyError) before isol_es is subscripted
\* (TypeError when it is None); np.min raises ValueError on an empty array
BzEnthalpies ==
    /\ bz_pc = "enthalpies"
    /\ LET raise(e) == /\ bz_pc' = e
                       /\ UNCHANGED <<enthalpies, config_prob, select_num>>
           missing == {k \in DOMAIN fatoms : ~info[fatoms[k].id].has_energy}
       IN  IF \E k \in DOMAIN fatoms : fatoms[k].kind # "Atoms"
           THEN raise("AttributeError")
           ELSE IF Len(fatoms) = 0 THEN raise("ValueError")
           ELSE IF bz_args.isol_es = "None"
                THEN (IF 1 \in missing THEN raise("KeyError") ELSE raise("TypeError"))
           ELSE IF missing # {} THEN raise("KeyError")
           ELSE IF Len(ps) < Len(fatoms) THEN raise("IndexError")
           ELSE LET H == [k \in DOMAIN fatoms |-> Enthalpy(info[fatoms[k].id], ps[k])] IN
                /\ enthalpies' = H
                /\ config_prob' = ConfigProb(H, bz_args.kT)
                /\ select_num' = SelectNum(bz_args.bolt_frac, Len(fatoms),
                                           bz_args.bolt_max_num)
                /\ bz_pc' = "draw"
    /\ UNCHANGED <<bz_args, info, atoms_list, fatoms, fatoms_is_atoms, ps, des,
                   selected_bolt_ats, bz_ret>>
    /\ UNCHANGED <<curVars, bzOthers>>

\* lines 1217-1240: the schemes a hull is built for
AnyScheme == {"linear-hull", "volume-stoichiometry", "other"}

ValidSchemes == {"linear-hull", "volume-stoichiometry"}

\* get_e_distance_to_hull and get_e_distance_to_hull_3D: the energy gap
\* between the configuration and the lower hull, never negative
HullDistance(at) == info[at.id].hull_distance

\* lines 1214-1263: isol_es and scheme are checked, then the hull and the
\* distances are computed over atoms, the list the caller passed, and the
\* number of draws over fatoms.  The hull functions read the labels of each
\* element they are given, which a list does not have (AttributeError)
BzHull ==
    /\ bz_pc = "hull"
    /\ LET raise(e) == /\ bz_pc' = e
                       /\ UNCHANGED <<des, config_prob, select_num>>
       IN  IF bz_args.isol_es = "None" THEN raise("KeyError")
           ELSE IF bz_args.scheme \notin ValidSchemes
                THEN raise("ValueError")
           ELSE IF \E k \in DOMAIN atoms_list : atoms_list[k].kind # "Atoms"
                THEN raise("AttributeError")
           ELSE LET d == [k \in DOMAIN atoms_list |-> HullDistance(atoms_list[k])] IN
                /\ des' = d
                /\ config_prob' = ConfigProb(d, bz_args.kT)
                /\ select_num' = SelectNum(bz_args.bolt_frac, Len(fatoms),
                                           bz_args.bolt_max_num)
                /\ bz_pc' = "draw"
    /\ UNCHANGED <<bz_args, info, atoms_list, fatoms, fatoms_is_atoms, ps, enthalpies,
                   selected_bolt_ats, bz_ret>>
    /\ UNCHANGED <<curVars, bzOthers>>

\* lines 1130-1140 and 1267-1277, one iteration: draw an index, append that
\* element of fatoms (IndexError when there is none), delete it from the
\* weights, from fatoms (which is the caller's list unless the pool was
\* flattened) and from the energies
BzDraw ==
    /\ bz_pc = "draw"
    /\ Len(selected_bolt_ats) < select_num
    /\ \E config_i \in DrawIndices(config_prob) :
          IF config_i > Len(fatoms)
          THEN /\ bz_pc' = "IndexError"
               /\ UNCHANGED <<atoms_list, fatoms, enthalpies, des, config_prob,
                              selected_bolt_ats>>
          ELSE /\ selected_bolt_ats' = Append(selected_bolt_ats, fatoms[config_i])
               /\ config_prob' = DeleteAt(config_prob, config_i)
               /\ fatoms' = DeleteAt(fatoms, config_i)
               /\ atoms_list' = IF fatoms_is_atoms THEN DeleteAt(fatoms, config_i)
                                ELSE atoms_list
               /\ IF bz_args.fn = "boltzhist_CUR"
                  THEN enthalpies' = DeleteAt(enthalpies, config_i) /\ des' = des
                  ELSE des' = DeleteAt(des, config_i) /\ enthalpies' = enthalpies
               /\ bz_pc' = bz_pc
    /\ UNCHANGED <<bz_args, info, fatoms_is_atoms, ps, select_num, bz_ret>>
    /\ UNCHANGED <<curVars, bzOthers>>

\* lines 1143-1148 and 1280-1285: cur_select is called on the drawn
\* configurations, always with stochastic=True
BzCallCur ==
    /\ bz_pc = "draw"
    /\ Len(selected_bolt_ats) >= select_num
    /\ bz_args.cur_num < select_num
    /\ cur_pc' = "entry"
    /\ cur_args' = [atoms |-> selected_bolt_ats, kernel_exp |-> bz_args.kernel_exp,
                    select_nums |-> bz_args.cur_num, stochastic |-> TRUE]
    /\ bz_pc' = "cur_select"
    /\ UNCHANGED <<cs_fatoms, pending, results, ats, c_scores, selected, cur_ret>>
    /\ UNCHANGED <<bz_args, info, atoms_list, fatoms, fatoms_is_atoms, ps, enthalpies,
                   des, config_prob, select_num, selected_bolt_ats, bz_ret>>
    /\ UNCHANGED bzOthers

\* a variant that returns the drawn configurations whatever cur_num is
BzReturnDrawnAlways ==
    /\ bz_pc = "draw"
    /\ Len(selected_bolt_ats) >= select_num
    /\ bz_ret' = ListVal(selected_bolt_ats)
    /\ bz_pc' = "returned"
    /\ UNCHANGED <<bz_args, info, atoms_list, fatoms, fatoms_is_atoms, ps, enthalpies,
                   des, config_prob, select_num, selected_bolt_ats>>
    /\ UNCHANGED <<curVars, bzOthers>>

\* lines 1149-1152 and 1286-1289: the drawn configurations are returned
BzReturnDrawn ==
    /\ bz_pc = "draw"
    /\ Len(selected_bolt_ats) >= select_num
    /\ ~(bz_args.cur_num < select_num)
    /\ bz_ret' = ListVal(selected_bolt_ats)
    /\ bz_pc' = "returned"
    /\ UNCHANGED <<bz_args, info, atoms_list, fatoms, fatoms_is_atoms, ps, enthalpies,
                   des, config_prob, select_num, selected_bolt_ats>>
    /\ UNCHANGED <<curVars, bzOthers>>

\* line 1152 and 1289: what cur_select returned is returned; what it raised
\* goes on to the caller
BzReturnCur ==
    /\ bz_pc = "cur_select"
    /\ cur_pc \notin {"entry", "starmap", "svd", "select"}
    /\ IF cur_pc = "returned"
       THEN bz_ret' = cur_ret /\ bz_pc' = "returned"
       ELSE bz_ret' = bz_ret /\ bz_pc' = cur_pc
    /\ UNCHANGED <<bz_args, info, atoms_list, fatoms, fatoms_is_atoms, ps, enthalpies,
                   des, config_prob, select_num, selected_bolt_ats>>
    /\ UNCHANGED <<curVars, bzOthers>>

BzNext == BzFlatten \/ BzPressures \/ BzEnthalpies \/ BzHull \/ BzDraw
             \/ BzCallCur \/ BzReturnDrawn \/ BzReturnCur

(***************************************************************************)
(* std_rattle                                                              *)
(***************************************************************************)
\* largest n_structures of a std_rattle call
MaxRattled == 3

RattleSeeds == {0, 1, 42}

RattleStds == {1, 2}

RattleStructures == {"A", "B"}

\* copy = atoms.copy(); copy.rattle(stdev, seed): the displacements are the
\* ones numpy's RandomState(seed) gives, so the result is fixed by the
\* structure, the amplitude and the seed
Rattled(xtal, stdev, seed) == [structure |-> xtal, stdev |-> stdev, seed |-> seed]

\* lines 355-360: the seed of iteration i, given the seed of the one before
KeepSeed(i, seed) == seed

SeedOf(i, seed) == IF i > 0 THEN seed + 1 ELSE seed

RtStart ==
    /\ rt_pc = "for"
    /\ \E st \in RattleStructures, n \in 0..MaxRattled, sd \in RattleStds, seed \in RattleSeeds :
          /\ rt_args = [structure |-> st, n_structures |-> n, rattle_std |-> sd,
                        rattle_seed |-> seed]
          /\ rattle_seed = seed
    /\ rt_i = 0
    /\ rattled_xtals = <<>>
    /\ rt_ret = None

RtIdle ==
    /\ rt_pc = "idle"
    /\ rt_args = None
    /\ rt_i = 0
    /\ rattle_seed = 0
    /\ rattled_xtals = <<>>
    /\ rt_ret = None

\* lines 354-363, one iteration of for i in range(n_structures)
RtIterate ==
    /\ rt_pc = "for"
    /\ rt_i < rt_args.n_structures
    /\ rattle_seed' = SeedOf(rt_i, rattle_seed)
    /\ rattled_xtals' = Append(rattled_xtals,
                               Rattled(rt_args.structure, rt_args.rattle_std,
                                       SeedOf(rt_i, rattle_seed)))
    /\ rt_i' = rt_i + 1
    /\ UNCHANGED <<rt_pc, rt_args, rt_ret>>
    /\ UNCHANGED rtOthers

\* line 364
RtReturn ==
    /\ rt_pc = "for"
    /\ ~(rt_i < rt_args.n_structures)
    /\ rt_ret' = ListVal(rattled_xtals)
    /\ rt_pc' = "returned"
    /\ UNCHANGED <<rt_args, rt_i, rattle_seed, rattled_xtals>>
    /\ UNCHANGED rtOthers

RtNext == RtIterate \/ RtReturn

(***************************************************************************)
(* scale_cell                                                              *)
(* A scale factor is a rational number; the caller's factors are given in  *)
(* hundredths.                                                             *)
(***************************************************************************)
\* largest n_structures, and longest custom factor list, of a scale_cell call
MaxScaled == 3

\* hundredths per unit
Hundred == 100

\* volume_scale_factor_range values [lo, hi], in hundredths
ScaleRanges == {<<90, 110>>, <<100, 110>>, <<50, 100>>, <<101, 110>>, <<100, 100>>}

\* the factors custom lists are made of, in hundredths
CustomFactorValues == {98, 100}

CustomLists == UNION {[1..n -> CustomFactorValues] : n \in 0..MaxScaled}

\* line 176, in hundredths
DefaultFactors == <<90, 95, 98, 99, 101, 102, 105, 110>>

ScaleStructures == {"A", "B"}

RatEq(a, b) == a.num * b.den = b.num * a.den

RatLess(a, b) == a.num * b.den < b.num * a.den

Hundredths(q) == [k \in DOMAIN q |-> Rat(q[k], Hundred)]

Abs(x) == IF x < 0 THEN -x ELSE x

\* the lengths np.arange(lo, hi + step, step) may have for
\* step = (hi - lo)/(n_structures - 1) # 0: ceil((stop - start)/step), a
\* quotient that is exactly n_structures (0 for a negative step) and is
\* computed in double precision, where rounding leaves it at that integer or
\* just above it
ArangeLengths(n_structures) == {Max2(n_structures, 0), Max2(n_structures, 0) + 1}

\* element i (from 0) of that array, lo + i * step
ArangeValue(lo, hi, n_structures, i) ==
    LET d == n_structures - 1
        sgn == IF d < 0 THEN -1 ELSE 1
    IN  Rat(lo * Abs(d) + i * (hi - lo) * sgn, Hundred * Abs(d))

\* lines 164-166: 1 is appended and the array sorted unless 1 is in it
WithNeutral(factors) ==
    IF \E k \in DOMAIN factors : RatEq(factors[k], Rat(1, 1)) THEN factors
    ELSE LET below == Cardinality({k \in DOMAIN factors : RatLess(factors[k], Rat(1, 1))})
         IN  SubSeq(factors, 1, below) \o <<Rat(1, 1)>>
                 \o SubSeq(factors, below + 1, Len(factors))

\* lines 187-193: a copy of atoms with the cell volume scaled by scale_factor
ScaledCopy(xtal, scale_factor) ==
    [xtal EXCEPT !.scale = Rat(xtal.scale.num * scale_factor.num,
                               xtal.scale.den * scale_factor.den)]

SclStart ==
    /\ scl_pc = "factors"
    /\ \E st \in ScaleStructures, r \in {None} \cup {ListVal(q) : q \in ScaleRanges},
          n \in 0..MaxScaled, c \in {None} \cup {ListVal(q) : q \in CustomLists} :
          /\ scl_args = [volume_scale_factor_range |-> r, n_structures |-> n,
                         volume_custom_scale_factors |-> c]
          /\ scl_structure = [id |-> st, scale |-> Rat(1, 1)]
    /\ scale_factors_defined = <<>>
    /\ distorted_cells = <<>>
    /\ scl_ret = None

SclIdle ==
    /\ scl_pc = "idle"
    /\ scl_args = None
    /\ scl_structure = None
    /\ scale_factors_defined = <<>>
    /\ distorted_cells = <<>>
    /\ scl_ret = None

\* lines 153-183: the factors.  With a range, (hi - lo)/(n_structures - 1)
\* raises ZeroDivisionError for n_structures = 1, and np.arange raises on a
\* zero step (lo = hi)
SclFactors ==
    /\ scl_pc = "factors"
    /\ LET r == scl_args.volume_scale_factor_range
           n == scl_args.n_structures
           c == scl_args.volume_custom_scale_factors
       IN  IF r # None
           THEN IF n = 1
                THEN /\ scl_pc' = "ZeroDivisionError"
                     /\ UNCHANGED scale_factors_defined
                ELSE IF r.items[1] = r.items[2]
                THEN /\ scl_pc' \in {"ZeroDivisionError", "ValueError"}
                     /\ UNCHANGED scale_factors_defined
                ELSE \E len \in ArangeLengths(n) :
                        /\ scale_factors_defined' =
                              WithNeutral([k \in 1..len |->
                                  ArangeValue(r.items[1], r.items[2], n, k - 1)])
                        /\ scl_pc' = "for"
           ELSE /\ scale_factors_defined' =
                      IF c = None THEN Hundredths(DefaultFactors) ELSE Hundredths(c.items)
                /\ scl_pc' = "for"
    /\ UNCHANGED <<scl_args, scl_structure, distorted_cells, scl_ret>>
    /\ UNCHANGED sclOthers

\* a variant of the loop body that leaves out a factor it has used before
SclScaleSkipsRepeats ==
    /\ scl_pc = "for"
    /\ Len(scale_factors_defined) > 0
    /\ LET scale_factor == Head(scale_factors_defined) IN
          distorted_cells' =
              IF \E k \in DOMAIN distorted_cells :
                     distorted_cells[k] = ScaledCopy(scl_structure, scale_factor)
              THEN distorted_cells
              ELSE Append(distorted_cells, ScaledCopy(scl_structure, scale_factor))
    /\ scale_factors_defined' = Tail(scale_factors_defined)
    /\ UNCHANGED <<scl_pc, scl_args, scl_structure, scl_ret>>
    /\ UNCHANGED sclOthers

\* lines 185-193, one iteration: scale_factors_defined holds the factors the
\* loop has still to visit
SclScale ==
    /\ scl_pc = "for"
    /\ Len(scale_factors_defined) > 0
    /\ LET scale_factor == Head(scale_factors_defined) IN
          distorted_cells' = Append(distorted_cells, ScaledCopy(scl_structure, scale_factor))
    /\ scale_factors_defined' = Tail(scale_factors_defined)
    /\ UNCHANGED <<scl_pc, scl_args, scl_structure, scl_ret>>
    /\ UNCHANGED sclOthers

\* line 194
SclReturn ==
    /\ scl_pc = "for"
    /\ Len(scale_factors_defined) = 0
    /\ scl_ret' = ListVal(distorted_cells)
    /\ scl_pc' = "returned"
    /\ UNCHANGED <<scl_args, scl_structure, scale_factors_defined, distorted_cells>>
    /\ UNCHANGED sclOthers

SclNext == SclFactors \/ SclScale \/ SclReturn

(***************************************************************************)
(* rms_dict                                                                *)
(***************************************************************************)
\* largest number of entries of an array passed to rms_dict
MaxRmsLen == 2

RmsValues == {0, 1, 3}

\* np.array(x): its shape and its entries in row-major order
Array(shape, data) == [shape |-> shape, data |-> data]

\* one-dimensional arrays of every length, and a row and a column of MaxRmsLen entries
RmsArrays ==
    UNION {{Array(<<n>>, d) : d \in [1..n -> RmsValues]} : n \in 0..MaxRmsLen}
    \cup {Array(<<1, MaxRmsLen>>, d) : d \in [1..MaxRmsLen -> RmsValues]}
    \cup {Array(<<MaxRmsLen, 1>>, d) : d \in [1..MaxRmsLen -> RmsValues]}

\* np.shape(x_pred) != np.shape(x_ref), negated
SameSize(a, b) == Len(a.data) = Len(b.data)

SameShape(a, b) == a.shape = b.shape

\* np.sqrt of a rational number, kept as the number under the root
SqrtOf(r) == [kind |-> "sqrt", of |-> r]

NaN == [kind |-> "nan"]

\* np.average(a): nan for an array without entries
Average(a) == IF Len(a) = 0 THEN NaN ELSE SqrtOf(Rat(SumSeq(a), Len(a)))

\* np.var(a), the mean of the squares minus the square of the mean
Variance(a) ==
    IF Len(a) = 0 THEN NaN
    ELSE SqrtOf(Rat(Len(a) * SumSeq([k \in DOMAIN a |-> a[k] * a[k]]) - SumSeq(a) * SumSeq(a),
                    Len(a) * Len(a)))

RmsStart ==
    /\ rms_pc = "entry"
    /\ x_ref \in RmsArrays
    /\ x_pred \in RmsArrays
    /\ error_2 = <<>>
    /\ rms_ret = None

RmsIdle ==
    /\ rms_pc = "idle"
    /\ x_ref = None
    /\ x_pred = None
    /\ error_2 = <<>>
    /\ rms_ret = None

\* lines 80-84: the shapes are compared, then the squared errors are computed
RmsCheck ==
    /\ rms_pc = "entry"
    /\ IF ~SameShape(x_pred, x_ref)
       THEN /\ rms_pc' = "ValueError"
            /\ UNCHANGED error_2
       ELSE /\ error_2' = [k \in DOMAIN x_ref.data |->
                              (x_ref.data[k] - x_pred.data[k]) * (x_ref.data[k] - x_pred.data[k])]
            /\ rms_pc' = "computed"
    /\ UNCHANGED <<x_ref, x_pred, rms_ret>>
    /\ UNCHANGED rmsOthers

\* lines 85-87
RmsReturn ==
    /\ rms_pc = "computed"
    /\ rms_ret' = [kind |-> "dict", rmse |-> Average(error_2), std |-> Variance(error_2)]
    /\ rms_pc' = "returned"
    /\ UNCHANGED <<x_ref, x_pred, error_2>>
    /\ UNCHANGED rmsOthers

RmsNext == RmsCheck \/ RmsReturn

(***************************************************************************)
(* Species                                                                 *)
(***************************************************************************)
\* largest number of configurations given to Species, and of atoms in one
MaxConfigs == 2

ChemicalSymbols == {"Si", "O", "H"}

\* at.get_chemical_symbols() of the configurations: one symbol per atom
SymbolLists == UNION {[1..n -> ChemicalSymbols] : n \in 1..MaxConfigs}

\* the orders in which the elements of a set may be listed
Orderings(S) ==
    {q \in [1..Cardinality(S) -> S] : \A a, b \in DOMAIN q : a # b => q[a] # q[b]}

\* lines 866-870: the symbols of syms that are not yet in the list are
\* appended, in the order of syms
RECURSIVE AppendNew(_, _)
AppendNew(list, syms) ==
    IF Len(syms) = 0 THEN list
    ELSE AppendNew(IF Head(syms) \in Range(list) THEN list ELSE Append(list, Head(syms)),
                   Tail(syms))

\* lines 884-887: the pairs (species_list[i], species_list[j]) for j in
\* range(i, len(species_list));  PairsFromNext starts j at i + 1 instead
RECURSIVE PairsFromNext(_, _)
PairsFromNext(species_list, i) ==
    IF i > Len(species_list) THEN <<>>
    ELSE [j \in 1..(Len(species_list) - i) |-> <<species_list[i], species_list[i + j]>>]
             \o PairsFromNext(species_list, i + 1)

RECURSIVE PairsFrom(_, _)
PairsFrom(species_list, i) ==
    IF i > Len(species_list) THEN <<>>
    ELSE [j \in 1..(Len(species_list) - i + 1) |->
              <<species_list[i], species_list[i + j - 1]>>]
             \o PairsFrom(species_list, i + 1)

SpStart ==
    /\ sp_pc = "get_species"
    /\ sp_atoms \in UNION {[1..n -> SymbolLists] : n \in 0..MaxConfigs}
    /\ sepcies_list = <<>>
    /\ sp_at = 1
    /\ pairs = <<>>
    /\ sp_ret = None

SpIdle ==
    /\ sp_pc = "idle"
    /\ sp_atoms = <<>>
    /\ sepcies_list = <<>>
    /\ sp_at = 1
    /\ pairs = <<>>
    /\ sp_ret = None

\* lines 863-870, one iteration of for at in self.atoms: list(set(sym_all))
\* lists the symbols of the configuration in an order of the set's choosing
SpConfiguration ==
    /\ sp_pc = "get_species"
    /\ sp_at <= Len(sp_atoms)
    /\ \E syms \in Orderings(Range(sp_atoms[sp_at])) :
          sepcies_list' = AppendNew(sepcies_list, syms)
    /\ sp_at' = sp_at + 1
    /\ UNCHANGED <<sp_pc, sp_atoms, pairs, sp_ret>>
    /\ UNCHANGED spOthers

\* lines 875-889: find_element_pairs() with symb_list = None, on the list
\* get_species returned
SpFindElementPairs ==
    /\ sp_pc = "get_species"
    /\ sp_at > Len(sp_atoms)
    /\ pairs' = PairsFrom(sepcies_list, 1)
    /\ sp_ret' = ListVal(PairsFrom(sepcies_list, 1))
    /\ sp_pc' = "returned"
    /\ UNCHANGED <<sp_atoms, sepcies_list, sp_at>>
    /\ UNCHANGED spOthers

SpNext == SpConfiguration \/ SpFindElementPairs

(***************************************************************************)
(* CompleteWorkflow.make                    (autoplex/auto/flows.py)       *)
(***************************************************************************)
\* largest number of structures in a structure_list
MaxStructureList == 2

\* types_of_species of the structures: a tuple of different elements
SpeciesTuples == {<<"Si">>, <<"O">>, <<"H">>, <<"Si", "O">>, <<"O", "Si">>}

StructureLists == UNION {[1..n -> SpeciesTuples] : n \in 0..MaxStructureList}

\* the jobs and flows put into flows
IsoAtomJob(species) == [kind |-> "IsoAtomMaker", species |-> species]

StructureFlow(kind, struc_i) == [kind |-> kind, struc_i |-> struc_i]

CwStart ==
    /\ cw_pc = "entry"
    /\ cw_structure_list \in StructureLists
    /\ all_species = {}
    /\ cw_species = <<>>
    /\ flows = <<>>
    /\ isoatoms = <<>>
    /\ collect = <<>>
    /\ cw_struc_i = 1
    /\ cw_ret = None

CwIdle ==
    /\ cw_pc = "idle"
    /\ cw_structure_list = <<>>
    /\ all_species = {}
    /\ cw_species = <<>>
    /\ flows = <<>>
    /\ isoatoms = <<>>
    /\ collect = <<>>
    /\ cw_struc_i = 1
    /\ cw_ret = None

\* lines 144-145: all_species is the set of the species tuples, and
\* next(iter(all_species)) is one of its elements, whichever the set yields
\* first; on an empty set next raises StopIteration
CwFirstOfAllSpecies ==
    /\ cw_pc = "entry"
    /\ all_species' = Range(cw_structure_list)
    /\ IF Range(cw_structure_list) = {}
       THEN /\ cw_pc' = "StopIteration"
            /\ UNCHANGED cw_species
       ELSE /\ cw_species' \in Range(cw_structure_list)
            /\ cw_pc' = "isoatoms"
    /\ UNCHANGED <<cw_structure_list, flows, isoatoms, collect, cw_struc_i, cw_ret>>
    /\ UNCHANGED cwOthers

\* lines 145-148, one iteration: cw_species holds the species still to come
CwIsoAtom ==
    /\ cw_pc = "isoatoms"
    /\ Len(cw_species) > 0
    /\ flows' = Append(flows, IsoAtomJob(Head(cw_species)))
    /\ isoatoms' = Append(isoatoms, Head(cw_species))
    /\ cw_species' = Tail(cw_species)
    /\ UNCHANGED <<cw_pc, cw_structure_list, all_species, collect, cw_struc_i, cw_ret>>
    /\ UNCHANGED cwOthers

\* lines 150-164, one iteration of the loop over the structures
CwStructure ==
    /\ cw_pc = "isoatoms"
    /\ Len(cw_species) = 0
    /\ cw_struc_i <= Len(cw_structure_list)
    /\ flows' = flows \o <<StructureFlow("PhononDFTMLDataGenerationFlow", cw_struc_i),
                           StructureFlow("PhononMLCalculationJob", cw_struc_i),
                           StructureFlow("PhononDFTMLBenchmarkFlow", cw_struc_i)>>
    /\ collect' = Append(collect, cw_struc_i)
    /\ cw_struc_i' = cw_struc_i + 1
    /\ UNCHANGED <<cw_pc, cw_structure_list, all_species, cw_species, isoatoms, cw_ret>>
    /\ UNCHANGED cwOthers

\* lines 166-171
CwReturn ==
    /\ cw_pc = "isoatoms"
    /\ Len(cw_species) = 0
    /\ cw_struc_i > Len(cw_structure_list)
    /\ flows' = Append(flows, [kind |-> "CollectBenchmark", rms_dis |-> collect])
    /\ cw_ret' = [kind |-> "Flow", jobs |-> Append(flows, [kind |-> "CollectBenchmark",
                                                          rms_dis |-> collect])]
    /\ cw_pc' = "returned"
    /\ UNCHANGED <<cw_structure_list, all_species, cw_species, isoatoms, collect, cw_struc_i>>
    /\ UNCHANGED cwOthers

CwNext == CwFirstOfAllSpecies \/ CwIsoAtom \/ CwStructure \/ CwReturn

(***************************************************************************)
(* PhononDFTMLBenchmarkJob                  (autoplex/auto/jobs.py)        *)
(***************************************************************************)
\* largest number of structures handed to the job
MaxBenchmarked == 3

BenchmarkStructures == {"Si2", "NaCl", "MoS2"}

BenchmarkLists == UNION {[1..n -> BenchmarkStructures] : n \in 0..MaxBenchmarked}

MlDirs == {"None", "gap_dir"}

\* the flow PhononMaker(...).make(structure=...) gives
GAPPhonons(xtal, dir) == [kind |-> "PhononMaker", structure |-> xtal, ml_dir |-> dir]

BjStart ==
    /\ bj_pc = "for"
    /\ bj_structure_list \in BenchmarkLists
    /\ ml_dir \in MlDirs
    /\ bj_struc_i = 1
    /\ bj_flows = <<>>
    /\ bj_ret = None

BjIdle ==
    /\ bj_pc = "idle"
    /\ bj_structure_list = <<>>
    /\ ml_dir = "None"
    /\ bj_struc_i = 1
    /\ bj_flows = <<>>
    /\ bj_ret = None

\* lines 17-26: the loop takes the next structure and appends its flow
BjAppend ==
    /\ bj_pc = "for"
    /\ bj_struc_i <= Len(bj_structure_list)
    /\ bj_flows' = Append(bj_flows, GAPPhonons(bj_structure_list[bj_struc_i], ml_dir))
    /\ bj_pc' = "appended"
    /\ UNCHANGED <<bj_structure_list, ml_dir, bj_struc_i, bj_ret>>
    /\ UNCHANGED bjOthers

\* lines 30-31, which are part of the loop body: the job returns at the end
\* of the iteration it is in
BjReturnInLoop ==
    /\ bj_pc = "appended"
    /\ bj_ret' = [kind |-> "Response", replace |-> bj_flows]
    /\ bj_pc' = "returned"
    /\ UNCHANGED <<bj_structure_list, ml_dir, bj_struc_i, bj_flows>>
    /\ UNCHANGED bjOthers

\* the loop ends without having run its body: the function falls off its end
BjFallThrough ==
    /\ bj_pc = "for"
    /\ bj_struc_i > Len(bj_structure_list)
    /\ bj_ret' = None
    /\ bj_pc' = "returned"
    /\ UNCHANGED <<bj_structure_list, ml_dir, bj_struc_i, bj_flows>>
    /\ UNCHANGED bjOthers

BjNext == BjAppend \/ BjReturnInLoop \/ BjFallThrough

(***************************************************************************)
(* Specifications: one per function, the other functions idle              *)
(***************************************************************************)
ScInit == ScStart /\ VaIdle /\ CurIdle /\ BzIdle /\ RtIdle /\ SclIdle /\ RmsIdle /\ SpIdle /\ CwIdle /\ BjIdle

CurInit == CurStart /\ ScIdle /\ VaIdle /\ BzIdle /\ RtIdle /\ SclIdle /\ RmsIdle /\ SpIdle /\ CwIdle /\ BjIdle

BzInit == BzStart /\ CurIdle /\ ScIdle /\ VaIdle /\ RtIdle /\ SclIdle /\ RmsIdle /\ SpIdle /\ CwIdle /\ BjIdle

\* cur_select runs inside the sampler, between BzCallCur and BzReturnCur
SpecSampler == BzInit /\ [][BzNext \/ CurNext]_vars

SpecCur == CurInit /\ [][CurNext]_vars

SpecSupercell == ScInit /\ [][ScNext]_vars

VaInit == VaStart /\ ScIdle /\ CurIdle /\ BzIdle /\ RtIdle /\ SclIdle /\ RmsIdle /\ SpIdle /\ CwIdle /\ BjIdle

RtInit == RtStart /\ ScIdle /\ VaIdle /\ CurIdle /\ BzIdle /\ SclIdle /\ RmsIdle /\ SpIdle /\ CwIdle /\ BjIdle

SpecRattle == RtInit /\ [][RtNext]_vars

SclInit == SclStart /\ ScIdle /\ VaIdle /\ CurIdle /\ BzIdle /\ RtIdle /\ RmsIdle /\ SpIdle /\ CwIdle /\ BjIdle

SpecScale == SclInit /\ [][SclNext]_vars

SpecAngle == VaInit /\ [][VaNext]_vars

RmsInit == RmsStart /\ ScIdle /\ VaIdle /\ CurIdle /\ BzIdle /\ RtIdle /\ SclIdle /\ SpIdle /\ CwIdle /\ BjIdle

SpecRms == RmsInit /\ [][RmsNext]_vars

SpInit == SpStart /\ ScIdle /\ VaIdle /\ CurIdle /\ BzIdle /\ RtIdle /\ SclIdle /\ RmsIdle /\ CwIdle /\ BjIdle

SpecSpecies == SpInit /\ [][SpNext]_vars

CwInit == CwStart /\ ScIdle /\ VaIdle /\ CurIdle /\ BzIdle /\ RtIdle /\ SclIdle /\ RmsIdle /\ SpIdle /\ BjIdle

SpecWorkflow == CwInit /\ [][CwNext]_vars

BjInit == BjStart /\ ScIdle /\ VaIdle /\ CurIdle /\ BzIdle /\ RtIdle /\ SclIdle /\ RmsIdle /\ SpIdle /\ CwIdle

SpecBenchmarkJob == BjInit /\ [][BjNext]_vars

(***************************************************************************)
(* Properties of reduce_supercell_size                                     *)
(***************************************************************************)
ScTrials == TrialLengths(sc_args.min_length, sc_args.fallback_min_length)

\* the tier t search at trial length m yields a supercell inside the atom window
TierWouldSucceed(m, t) ==
    /\ cst[<<m, t>>] # 0
    /\ sc_args.min_atoms <= cst[<<m, t>>]
    /\ cst[<<m, t>>] <= sc_args.max_atoms

\* C5: the diagonal fallback is returned only after all three tiers have failed
\* for every trial minimum length of the countdown; a tier that would succeed at
\* a smaller trial length wins over the fallback.
C5_FallbackOnlyAfterAllTrials ==
    (sc_pc = "done" /\ sc_ret.kind = "fallback")
        => \A m \in ScTrials, t \in Tiers : ~TierWouldSucceed(m, t)

\* C6: for every combination of lengths and atom bounds, the empty countdown
\* included, the function ends with a matrix: a tier result or the diagonal
\* fallback with entries max(floor(max_length / vector_length), 1) >= 1.
C6_AlwaysReturnsMatrix ==
    sc_pc = "done" =>
        \/ sc_ret.kind = "tier"
        \/ /\ sc_ret.kind = "fallback"
           /\ \A i \in 1..3 :
                 /\ sc_ret.diag[i] >= 1
                 /\ sc_ret.diag[i] >= sc_args.max_length \div structure[i]
                 /\ sc_ret.diag[i] \in {1, sc_args.max_length \div structure[i]}

\* C7: a matrix returned by a tier gives an atom count inside
\* [min_atoms, max_atoms]; it is the result of that tier at that trial length,
\* and every earlier tier of that trial length raised or was out of the window.
C7_TierResultInWindow ==
    (sc_pc = "done" /\ sc_ret.kind = "tier") =>
        /\ sc_args.min_atoms <= sc_ret.num_sites
        /\ sc_ret.num_sites <= sc_args.max_atoms
        /\ sc_ret.num_sites = cst[<<sc_ret.minimum, sc_ret.tier>>]
        /\ \A t \in 1..(sc_ret.tier - 1) : ~TierWouldSucceed(sc_ret.minimum, t)

\* a later tier returned after an earlier tier produced an out-of-window supercell
C7_Witness ==
    /\ sc_pc = "done"
    /\ sc_ret.kind = "tier"
    /\ sc_ret.tier > 1
    /\ \E t \in 1..(sc_ret.tier - 1) :
          /\ cst[<<sc_ret.minimum, t>>] # 0
          /\ ~TierWouldSucceed(sc_ret.minimum, t)

(***************************************************************************)
(* Properties of random_vary_angle                                         *)
(***************************************************************************)
C8_State ==
    /\ va_pc = "returned" =>
          /\ va_ret.kind = "list"
          /\ Len(va_ret.items) = va_args.n_structures
    /\ va_pc = "RuntimeError" =>
          /\ va_ret = None
          /\ attempts = va_args.angle_max_attempts
          /\ generated_structures < va_args.n_structures
    /\ va_pc \in {"while", "inner"} => va_ret = None
    /\ va_pc = "inner" => attempts <= va_args.angle_max_attempts

C8_Step ==
    /\ (va_pc = "while" /\ va_pc' = "inner") => attempts' = 0
    /\ (va_pc = "inner" /\ va_pc' = "inner") =>
          (attempts' = attempts + 1 /\ distorted_angle_cells' = distorted_angle_cells)
    /\ (va_pc = "inner" /\ va_pc' = "while") =>
          (attempts' = attempts + 1 /\ Len(distorted_angle_cells') = Len(distorted_angle_cells) + 1)
    /\ va_pc' = "RuntimeError" => va_pc \in {"inner", "RuntimeError"}

\* C8: random_vary_angle returns exactly n_structures structures or raises
\* RuntimeError; the attempt counter restarts at 0 for every target, and when
\* angle_max_attempts attempts of one target are rejected the call raises and
\* returns no list, whatever was generated before.
C8_AllOrRuntimeError == []C8_State /\ [][C8_Step]_vars

\* the call raised although structures had been generated for earlier targets
C8_Witness ==
    /\ va_pc = "RuntimeError"
    /\ Len(distorted_angle_cells) >= 1
    /\ attempts >= 2

\* C9: every structure of the output list passes check_distances with the
\* caller's min_distance (no pair of atoms closer than min_distance); a cell
\* that fails the check is never appended.
C9_OutputsPassDistanceCheck ==
    \A k \in 1..Len(distorted_angle_cells) :
        /\ check_distances(distorted_angle_cells[k], va_args.min_distance)
        /\ \A p \in DOMAIN distorted_angle_cells[k].dists :
              distorted_angle_cells[k].dists[p] >= va_args.min_distance

\* a list was returned whose last structure was accepted after a rejected attempt
C9_Witness ==
    /\ va_pc = "returned"
    /\ Len(va_ret.items) >= 1
    /\ attempts >= 2
    /\ \E p \in DOMAIN va_ret.items[1].dists :
          va_ret.items[1].dists[p] = va_args.min_distance

\* C10: for every target, the first and the later ones, each trial angle is
\* drawn from [int(angle * (1 - s/100)), int(angle * (1 + s/100))] with s the
\* angle_percentage_scale passed by the caller.
C10_DrawIntervalUsesCallerScale ==
    va_pc = "inner" =>
        \A i \in 1..3 :
            RandInt(abg[i], min_scale, max_scale) =
                ((abg[i] * (100 - va_args.angle_percentage_scale)) \div 100)
                    .. ((abg[i] * (100 + va_args.angle_percentage_scale)) \div 100)

(***************************************************************************)
(* Properties of cur_select                                                *)
(***************************************************************************)
\* the call under inspection was made by a caller of cur_select itself
CurReturnedList == cur_pc = "returned" /\ cur_ret.kind = "list"

\* C3: for every pool and every requested count k >= 0, in stochastic and in
\* deterministic mode, cur_select returns at most min(k, len(pool))
\* configurations and no pool index twice.
C3_SelectionBounds ==
    CurReturnedList =>
        /\ Len(cur_ret.items) <= Min2(cur_args.select_nums, Len(cs_fatoms))
        /\ Len(selected) = Len(cur_ret.items)
        /\ \A a, b \in DOMAIN selected : a # b => selected[a] # selected[b]
        /\ \A a \in DOMAIN selected : selected[a] \in DOMAIN cs_fatoms

\* C4: called with an empty pool, cur_select returns nothing, without raising
\* and without attempting the decomposition.
C4_EmptyPoolReturnsNothing ==
    (cur_pc # "idle" /\ Len(cur_args.atoms) = 0) =>
        /\ cur_pc \in {"entry", "starmap", "returned"}
        /\ cur_pc = "returned" => cur_ret = None


(***************************************************************************)
(* Properties of boltzhist_CUR and convexhull_CUR                          *)
(***************************************************************************)
\* number of configurations in the pool the caller passed, sub-pools flattened
PoolSize == Len(Flatten(bz_args.atoms))

\* round(bolt_frac * len(pool)), capped by bolt_max_num
DrawBound ==
    Min2(PyRound(bz_args.bolt_frac.num * PoolSize, bz_args.bolt_frac.den),
         bz_args.bolt_max_num)

NoDuplicates(q) == \A a, b \in DOMAIN q : a # b => q[a].id # q[b].id

\* C1: when boltzhist_CUR returns, it returns a list in which no
\* configuration occurs twice and whose length is at most
\* min(round(bolt_frac * len(pool)), bolt_max_num); the drawn list never holds
\* a configuration twice either.
C1_NoDuplicatesWithinBound ==
    bz_args.fn = "boltzhist_CUR" =>
        /\ NoDuplicates(selected_bolt_ats)
        /\ bz_pc = "returned" =>
              /\ bz_ret.kind = "list"
              /\ NoDuplicates(bz_ret.items)
              /\ Len(bz_ret.items) <= DrawBound

\* boltzhist_CUR has returned two or more configurations, as many as the bound allows
C1_Witness ==
    /\ bz_args.fn = "boltzhist_CUR"
    /\ bz_pc = "returned"
    /\ bz_ret.kind = "list"
    /\ Len(bz_ret.items) >= 2
    /\ Len(bz_ret.items) = DrawBound

\* C2: after boltzhist_CUR or convexhull_CUR has returned, the list the
\* caller passed as atoms holds what it held at the call.
C2_CallerPoolUnchanged ==
    bz_pc = "returned" => atoms_list = bz_args.atoms

(***************************************************************************)
(* Properties of check_distances                                           *)
(***************************************************************************)
\* C11: check_distances returns True only for a structure in which every
\* pairwise minimum-image distance is strictly greater than min_distance:
\* every structure it accepted for the output list has all its distances
\* above min_distance, none equal to it.
C11_TrueOnlyIfAllDistancesExceed ==
    \A k \in 1..Len(distorted_angle_cells) :
        \A p \in DOMAIN distorted_angle_cells[k].dists :
            distorted_angle_cells[k].dists[p] > va_args.min_distance

(***************************************************************************)
(* Properties of std_rattle                                                *)
(***************************************************************************)
\* C12: the i-th structure of the output (i from 0) is the input structure
\* rattled with rattle_std and seed rattle_seed + i, so the seeds of one call
\* are pairwise different and are fixed by the arguments; the returned list
\* has exactly n_structures structures.
C12_SeedIncrementsPerStructure ==
    /\ \A k \in 1..Len(rattled_xtals) :
          rattled_xtals[k] = Rattled(rt_args.structure, rt_args.rattle_std,
                                     rt_args.rattle_seed + (k - 1))
    /\ \A a, b \in 1..Len(rattled_xtals) :
          a # b => rattled_xtals[a].seed # rattled_xtals[b].seed
    /\ rt_pc = "returned" =>
          /\ rt_ret.kind = "list"
          /\ rt_ret.items = rattled_xtals
          /\ Len(rt_ret.items) = rt_args.n_structures

\* std_rattle has returned three structures, the last one rattled with seed 44
C12_Witness ==
    /\ rt_pc = "returned"
    /\ rt_args.rattle_seed = 42
    /\ Len(rt_ret.items) >= 3
    /\ rt_ret.items[3].seed = 44

(***************************************************************************)
(* Properties of scale_cell                                                *)
(***************************************************************************)
ScaleErrors == {"ZeroDivisionError", "ValueError"}

\* the cell of the output list is the undistorted one
Undistorted(cell) == RatEq(cell.scale, Rat(1, 1))

\* C13: with a range [lo, hi], scale_cell returns, and what it returns holds
\* the undistorted cell, has n_structures or n_structures + 1 cells, and
\* apart from the undistorted cell its factors are the n_structures values
\* lo + i * (hi - lo)/(n_structures - 1), the last of them hi.
C13_RangeGivesSpacedFactorsAndNeutral ==
    scl_args.volume_scale_factor_range # None =>
        /\ scl_pc \notin ScaleErrors
        /\ scl_pc = "returned" =>
              LET r == scl_args.volume_scale_factor_range.items
                  n == scl_args.n_structures
                  out == scl_ret.items
              IN  /\ Len(out) \in {n, n + 1}
                  /\ \E k \in DOMAIN out : Undistorted(out[k])
                  /\ \A k \in DOMAIN out :
                        \/ Undistorted(out[k])
                        \/ \E i \in 0..(n - 1) :
                              RatEq(out[k].scale, ArangeValue(r[1], r[2], n, i))

\* C14: with custom factors and no range, scale_cell returns one structure
\* per listed factor, in list order, repeated factors included, each the
\* input structure scaled by its factor; the input structure is as it was.
C14_OneStructurePerCustomFactor ==
    (scl_args.volume_scale_factor_range = None
        /\ scl_args.volume_custom_scale_factors # None) =>
        /\ scl_structure.scale = Rat(1, 1)
        /\ scl_pc \notin ScaleErrors
        /\ scl_pc = "returned" =>
              LET c == scl_args.volume_custom_scale_factors.items
                  out == scl_ret.items
              IN  /\ Len(out) = Len(c)
                  /\ \A k \in DOMAIN out :
                        /\ out[k].id = scl_structure.id
                        /\ RatEq(out[k].scale, Rat(c[k], Hundred))

\* scale_cell has returned two structures for the custom factors [1.0, 1.0]
C14_Witness ==
    /\ scl_pc = "returned"
    /\ scl_args.volume_scale_factor_range = None
    /\ scl_args.volume_custom_scale_factors = ListVal(<<100, 100>>)
    /\ Len(scl_ret.items) = 2

(***************************************************************************)
(* Properties of the enthalpies, labels and pressures of boltzhist_CUR     *)
(***************************************************************************)
\* (E - sum of isolated-atom energies)/n_atoms + V * P/n_atoms, in quarter units
EnthalpyPerAtom(at_info, p) ==
    LET natoms == Len(at_info.numbers)
        isol == SumSeq([k \in 1..natoms |-> IsolEs[at_info.numbers[k]]])
    IN  ((at_info.energy - isol) * HScale + at_info.volume * p * GPa * HScale) \div natoms

\* the weights are computed and nothing is drawn yet
WeightsReady ==
    /\ bz_args.fn = "boltzhist_CUR"
    /\ bz_pc = "draw"
    /\ Len(selected_bolt_ats) = 0

\* C15: the enthalpy boltzhist_CUR bins and weights is, for every
\* configuration, (E - sum of isolated-atom energies)/n_atoms + V * P/n_atoms,
\* the energy term divided by the atom count once.
C15_EnthalpyDividesEnergyOnce ==
    WeightsReady =>
        \A k \in DOMAIN fatoms :
            enthalpies[k] = EnthalpyPerAtom(info[fatoms[k].id], ps[k])

HasLabel(at_info, label) ==
    IF label = "energy" THEN at_info.has_energy ELSE at_info.has_REF_energy

\* the labels of a configuration with the energy read under the given key
ReadUnder(at_info, label) ==
    [at_info EXCEPT !.energy = IF label = "energy" THEN at_info.energy
                                ELSE at_info.REF_energy]

\* C16: boltzhist_CUR reads the energy of each configuration under the key
\* energy_label: once the weights are computed, every configuration has that
\* label (a missing one would have raised) and its enthalpy is computed from
\* the value stored under it.
C16_EnergyReadUnderEnergyLabel ==
    WeightsReady =>
        \A k \in DOMAIN fatoms :
            /\ HasLabel(info[fatoms[k].id], bz_args.energy_label)
            /\ enthalpies[k] =
                  Enthalpy(ReadUnder(info[fatoms[k].id], bz_args.energy_label), ps[k])

\* the configurations of the pool the caller passed, sub-pools flattened
Leaves == Flatten(bz_args.atoms)

PressureMissing == \E k \in DOMAIN Leaves : ~info[Leaves[k].id].has_pressure

\* C17: called with P = None on a pool in which some configuration has no
\* info['pressure'], boltzhist_CUR ends in RuntimeError with nothing selected
\* and nothing removed from the pool; called with a list P, it takes P as the
\* pressures and does not fail on missing pressure metadata.
C17_MissingPressureIsFatal ==
    bz_args.fn = "boltzhist_CUR" =>
        /\ (bz_args.P = None /\ PressureMissing) =>
              /\ bz_pc \in {"entry", "pressures", "RuntimeError"}
              /\ selected_bolt_ats = <<>>
              /\ atoms_list = bz_args.atoms
        /\ bz_args.P # None =>
              /\ bz_pc # "RuntimeError"
              /\ bz_pc \in {"enthalpies", "draw", "cur_select", "returned"} =>
                    ps = bz_args.P.items

\* boltzhist_CUR has raised RuntimeError on a nested pool with a
\* configuration that has no pressure
C17_Witness ==
    /\ bz_args.fn = "boltzhist_CUR"
    /\ bz_args.P = None
    /\ PressureMissing
    /\ bz_args.atoms[1].kind = "list"
    /\ bz_pc = "RuntimeError"

\* boltzhist_CUR has returned configurations drawn with the pressures of P
\* from a pool with a configuration that has no pressure
C17_WitnessExplicitP ==
    /\ bz_args.fn = "boltzhist_CUR"
    /\ bz_args.P # None
    /\ PressureMissing
    /\ bz_pc = "returned"
    /\ Len(bz_ret.items) >= 1

(***************************************************************************)
(* Properties of the CUR stage and of the entry checks of convexhull_CUR   *)
(***************************************************************************)
Ids(q) == {q[k].id : k \in DOMAIN q}

\* C18: when boltzhist_CUR or convexhull_CUR returns after drawing s
\* configurations: if cur_num < s the drawn ones went through cur_select and
\* the result has exactly cur_num configurations, pairwise different and all
\* among the drawn ones; otherwise the result is the drawn list itself, in
\* draw order.
C18_CurStagePrunesToCurNum ==
    /\ bz_pc = "cur_select" =>
          /\ bz_args.cur_num < Len(selected_bolt_ats)
          /\ cur_pc # "idle"
          /\ cur_args.atoms = selected_bolt_ats
          /\ cur_args.select_nums = bz_args.cur_num
    /\ bz_pc = "returned" =>
          IF bz_args.cur_num < Len(selected_bolt_ats)
          THEN /\ cur_pc = "returned"
               /\ bz_ret.kind = "list"
               /\ Len(bz_ret.items) = bz_args.cur_num
               /\ NoDuplicates(bz_ret.items)
               /\ Ids(bz_ret.items) \subseteq Ids(selected_bolt_ats)
          ELSE /\ cur_pc = "idle"
               /\ bz_ret = ListVal(selected_bolt_ats)

\* one configuration out of three drawn ones has been returned by the CUR stage
C18_Witness ==
    /\ bz_pc = "returned"
    /\ Len(selected_bolt_ats) = 3
    /\ bz_args.cur_num = 1
    /\ Len(bz_ret.items) = 1

\* two drawn configurations have been returned as drawn
C18_WitnessUnpruned ==
    /\ bz_pc = "returned"
    /\ Len(selected_bolt_ats) = 2
    /\ bz_args.cur_num >= 2
    /\ bz_ret.items = selected_bolt_ats

\* C19: called without isol_es or with a scheme other than 'linear-hull' and
\* 'volume-stoichiometry', convexhull_CUR ends in an exception with no hull
\* distance computed, no weight computed, nothing drawn and nothing removed
\* from the pool.
C19_BadHullArgumentsRejectedAtEntry ==
    (bz_args.fn = "convexhull_CUR"
        /\ (bz_args.isol_es = "None" \/ bz_args.scheme \notin {"linear-hull",
                                                               "volume-stoichiometry"})) =>
        /\ bz_pc \in {"entry", "hull", "IndexError", "KeyError", "ValueError"}
        /\ des = <<>>
        /\ config_prob = <<>>
        /\ selected_bolt_ats = <<>>
        /\ atoms_list = bz_args.atoms

\* convexhull_CUR has raised ValueError for an unknown scheme on a pool of configurations
C19_Witness ==
    /\ bz_args.fn = "convexhull_CUR"
    /\ bz_args.scheme = "other"
    /\ Len(bz_args.atoms) >= 2
    /\ bz_pc = "ValueError"

\* convexhull_CUR has raised KeyError for isol_es = None
C19_WitnessNoIsolEs ==
    /\ bz_args.fn = "convexhull_CUR"
    /\ bz_args.isol_es = "None"
    /\ Len(bz_args.atoms) >= 2
    /\ bz_pc = "KeyError"

(***************************************************************************)
(* Properties of flattening                                                *)
(***************************************************************************)
\* C20: whatever the nesting of the pool, cur_select works on the flattened
\* pool: every leaf configuration once, in order, and no list among the
\* elements.
C20_SelectionRunsOnFlattenedPool ==
    cur_pc \in {"starmap", "svd", "select", "returned", "DescriptorError", "ValueError"} =>
        /\ cs_fatoms = Flatten(cur_args.atoms)
        /\ \A k \in DOMAIN cs_fatoms : cs_fatoms[k].kind = "Atoms"

(***************************************************************************)
(* Properties of the worker processes of cur_select                        *)
(***************************************************************************)
\* C21: in whatever order the worker processes finish, the result of task i
\* is the configuration submitted as task i with its descriptor computed,
\* the gathered list ats holds one such result per configuration in
\* submission order, and the decomposition and the selection run only when
\* no task is pending.
C21_ResultsInSubmissionOrder ==
    /\ cur_pc = "starmap" =>
          \A i \in DOMAIN cs_fatoms :
              i \notin pending =>
                  /\ results[i].kind = "Atoms"
                  /\ results[i].id = cs_fatoms[i].id
                  /\ results[i].descriptor_vec
    /\ cur_pc \in {"svd", "select"} =>
          /\ pending = {}
          /\ Len(ats) = Len(cs_fatoms)
          /\ \A i \in DOMAIN ats :
                /\ ats[i].id = cs_fatoms[i].id
                /\ ats[i].descriptor_vec

\* the third task is done while the first is still running, and its result
\* is at the third place
C21_Witness ==
    /\ cur_pc = "starmap"
    /\ Len(cs_fatoms) >= 3
    /\ 1 \in pending
    /\ 3 \notin pending
    /\ results[3].kind = "Atoms"
    /\ results[3].id = cs_fatoms[3].id

(***************************************************************************)
(* Properties of rms_dict                                                  *)
(***************************************************************************)
IsZero(v) == v.kind = "sqrt" /\ v.of.num = 0

\* rms_dict never returns for inputs of different shapes: it raises ValueError
\* before anything is computed
RmsShapeMismatchRaises ==
    x_pred.shape # x_ref.shape =>
        /\ rms_pc \in {"entry", "ValueError"}
        /\ error_2 = <<>>
        /\ rms_ret = None

\* C22, as written: inputs of different shapes raise ValueError at once, and
\* identical inputs of equal shape give rmse = 0 and std = 0.
C22_IdenticalInputsGiveZero ==
    /\ RmsShapeMismatchRaises
    /\ (x_pred = x_ref /\ rms_pc = "returned") =>
          IsZero(rms_ret.rmse) /\ IsZero(rms_ret.std)

\* C22, amended: inputs of different shapes raise ValueError at once, and
\* identical inputs with at least one entry give rmse = 0 and std = 0 (for
\* arrays without entries the mean is nan).
C22_IdenticalNonEmptyInputsGiveZero ==
    /\ RmsShapeMismatchRaises
    /\ x_pred.shape = x_ref.shape => rms_pc # "ValueError"
    /\ (x_pred = x_ref /\ Len(x_ref.data) > 0 /\ rms_pc = "returned") =>
          IsZero(rms_ret.rmse) /\ IsZero(rms_ret.std)
    /\ (x_pred = x_ref /\ Len(x_ref.data) = 0 /\ rms_pc = "returned") =>
          rms_ret.rmse = NaN /\ rms_ret.std = NaN

\* rms_dict has returned zeros for two identical arrays with different entries
C22_Witness ==
    /\ rms_pc = "returned"
    /\ x_pred = x_ref
    /\ x_ref = Array(<<2>>, <<1, 3>>)
    /\ IsZero(rms_ret.rmse)
    /\ IsZero(rms_ret.std)

\* rms_dict has raised ValueError for a row and a column of the same entries
C22_WitnessShapes ==
    /\ rms_pc = "ValueError"
    /\ x_ref.data = x_pred.data
    /\ x_ref.shape # x_pred.shape

(***************************************************************************)
(* Properties of Species                                                   *)
(***************************************************************************)
\* the elements that occur in some configuration
AllSymbols == UNION {Range(sp_atoms[k]) : k \in DOMAIN sp_atoms}

\* C23: get_species lists every element that occurs in some configuration
\* exactly once, and find_element_pairs returns n(n+1)/2 pairs for the n
\* species: every unordered pair of species, each species with itself
\* included, is at exactly one place of the list.
C23_SpeciesOnceAndAllUnorderedPairs ==
    /\ \A a, b \in DOMAIN sepcies_list : a # b => sepcies_list[a] # sepcies_list[b]
    /\ Range(sepcies_list) \subseteq AllSymbols
    /\ sp_pc = "returned" =>
          LET n == Len(sepcies_list) IN
          /\ Range(sepcies_list) = AllSymbols
          /\ sp_ret.items = pairs
          /\ 2 * Len(pairs) = n * (n + 1)
          /\ \A x, y \in AllSymbols :
                Cardinality({k \in DOMAIN pairs : {pairs[k][1], pairs[k][2]} = {x, y}}) = 1

\* for the element sets {Si} and {Si, O}: 2 species and the 3 pairs
\* (Si,Si), (Si,O), (O,O)
C23_Witness ==
    /\ sp_pc = "returned"
    /\ sp_atoms = <<(<<"Si">>), <<"Si", "O">>>>
    /\ sepcies_list = <<"Si", "O">>
    /\ pairs = << <<"Si", "Si">>, <<"Si", "O">>, <<"O", "O">> >>

(***************************************************************************)
(* Properties of CompleteWorkflow.make                                     *)
(***************************************************************************)
\* the species that occur in some structure of the list
SpeciesUnion == UNION {Range(cw_structure_list[k]) : k \in DOMAIN cw_structure_list}

IsoAtomJobsFor(species) ==
    {k \in DOMAIN cw_ret.jobs : cw_ret.jobs[k] = IsoAtomJob(species)}

\* C24: the workflow built for a list of structures holds exactly one
\* isolated-atom calculation for every species that occurs in some structure
\* of the list, and none for any other species.
C24_OneIsoAtomPerSpeciesOfUnion ==
    cw_pc = "returned" =>
        /\ \A species \in SpeciesUnion : Cardinality(IsoAtomJobsFor(species)) = 1
        /\ \A k \in DOMAIN cw_ret.jobs :
              cw_ret.jobs[k].kind = "IsoAtomMaker" => cw_ret.jobs[k].species \in SpeciesUnion

(***************************************************************************)
(* Properties of PhononDFTMLBenchmarkJob                                   *)
(***************************************************************************)
\* C30: for every structure_list the job replaces itself with a flow that
\* holds one ML phonon flow per structure of the list, in list order.
C30_OnePhononFlowPerStructure ==
    bj_pc = "returned" =>
        /\ bj_ret.kind = "Response"
        /\ Len(bj_ret.replace) = Len(bj_structure_list)
        /\ \A k \in DOMAIN bj_structure_list :
              bj_ret.replace[k] = GAPPhonons(bj_structure_list[k], ml_dir)

(***************************************************************************)
(* Properties of the samplers as filters                                   *)
(***************************************************************************)
\* item is a configuration of pool, with the keys of its info as supplied
TakenFrom(item, pool) ==
    /\ item.kind = "Atoms"
    /\ \E k \in DOMAIN pool :
          /\ pool[k].kind = "Atoms"
          /\ item.id = pool[k].id
          /\ item.descriptor_vec = pool[k].descriptor_vec

\* what the samplers have returned is made of configurations of their pools
ReturnedFromPool ==
    /\ (bz_pc = "returned" /\ bz_ret.kind = "list") =>
          \A k \in DOMAIN bz_ret.items : TakenFrom(bz_ret.items[k], Leaves)
    /\ (cur_pc = "returned" /\ cur_ret.kind = "list") =>
          \A k \in DOMAIN cur_ret.items :
              TakenFrom(cur_ret.items[k], Flatten(cur_args.atoms))

\* C25: boltzhist_CUR, convexhull_CUR and cur_select only filter: every
\* configuration they return is a configuration of the flattened input pool,
\* and no step of them changes a label (info) of a configuration.
C25_SamplersOnlyFilter == [][info' = info /\ ReturnedFromPool']_vars

\* boltzhist_CUR or convexhull_CUR has returned what cur_select picked out of
\* two or more drawn configurations
C25_Witness ==
    /\ bz_pc = "returned"
    /\ cur_pc = "returned"
    /\ bz_ret.kind = "list"
    /\ Len(bz_ret.items) = 1
    /\ Len(selected_bolt_ats) >= 2
    /\ bz_ret = cur_ret

(***************************************************************************)
(* Properties of the raw weights of boltzhist_CUR                          *)
(***************************************************************************)
\* x lies in bin b of the NumBins equal bins between the least and the
\* largest of values: lower edge <= x < upper edge, the last bin closed
InBin(values, x, b) ==
    LET lo == HistLo(values)
        width == HistHi(values) - HistLo(values)
    IN  /\ NumBins * lo + b * width <= NumBins * x
        /\ \/ NumBins * x < NumBins * lo + (b + 1) * width
           \/ b = NumBins - 1

\* how many of values lie in the bin that x lies in
Occupancy(values, x) ==
    Cardinality({j \in DOMAIN values :
                    \E b \in 0..(NumBins - 1) :
                        InBin(values, x, b) /\ InBin(values, values[j], b)})

\* C26: the raw weight of a configuration is 1/occupancy of the bin its
\* enthalpy lies in, times exp(-(H - H_min)/kT) only when kT > 0; the bin is
\* occupied by the configuration itself, so for kT <= 0 every raw weight is
\* strictly positive.  (Weights carry the common factor Fact(n) * 2^(max - min).)
C26_RawWeightIsInverseOccupancy ==
    WeightsReady =>
        \A k \in DOMAIN enthalpies :
            LET occupancy == Occupancy(enthalpies, enthalpies[k])
                boltzmann == IF bz_args.kT > 0
                             THEN Pow2(SetMax(Range(enthalpies)) - enthalpies[k])
                             ELSE 1
            IN  /\ occupancy >= 1
                /\ config_prob[k] * occupancy = Fact(Len(enthalpies)) * boltzmann
                /\ bz_args.kT <= 0 => config_prob[k] > 0

\* kT = 0, two configurations share a bin and a third has one of its own
C26_Witness ==
    /\ WeightsReady
    /\ bz_args.kT = 0
    /\ \E k \in DOMAIN enthalpies : Occupancy(enthalpies, enthalpies[k]) = 2
    /\ \E k \in DOMAIN enthalpies : Occupancy(enthalpies, enthalpies[k]) = 1

\* kT > 0 and the enthalpies differ
C26_WitnessBoltzmann ==
    /\ WeightsReady
    /\ bz_args.kT > 0
    /\ \E j, k \in DOMAIN enthalpies : enthalpies[j] < enthalpies[k]

(***************************************************************************)
(* Properties of the draw loop of boltzhist_CUR                            *)
(***************************************************************************)
\* the draw loop has raised: only a draw leaves drawn configurations behind
\* an IndexError
DrawRaised == bz_pc = "IndexError" /\ Len(selected_bolt_ats) >= 1

\* C27: for every pool of n >= 1 configurations, every bolt_frac >= 0 and
\* every bolt_max_num >= 0 the draw loop of boltzhist_CUR ends normally: no
\* draw takes an index outside the remaining pool, and the remaining pool and
\* the weights stay equally long.
C27_DrawLoopEndsNormally ==
    bz_args.fn = "boltzhist_CUR" =>
        /\ ~DrawRaised
        /\ bz_pc = "draw" => Len(config_prob) = Len(fatoms)

(***************************************************************************)
(* Properties of the angle assignment of random_vary_angle                 *)
(***************************************************************************)
\* C28: whatever angle indices w_angle holds, after an attempt every selected
\* angle of the new cell is a value drawn around that angle's own current
\* value, and every other angle has its current value.
C28_SelectedAngleDrawnAroundItself ==
    (va_pc \in {"inner", "while", "RuntimeError"} /\ attempts >= 1) =>
        \A wang \in 0..2 :
            IF wang \in Range(va_args.w_angle)
            THEN newcell[wang + 1] \in RandInt(abg[wang + 1], min_scale, max_scale)
            ELSE newcell[wang + 1] = abg[wang + 1]

(***************************************************************************)
(* Properties of the weights of convexhull_CUR                             *)
(***************************************************************************)
\* convexhull_CUR is called with isol_es, a scheme it knows and a pool of
\* sub-pools, which it flattens
HullCallOnNestedPool ==
    /\ bz_args.fn = "convexhull_CUR"
    /\ bz_args.isol_es # "None"
    /\ bz_args.scheme \in ValidSchemes
    /\ \A k \in DOMAIN bz_args.atoms : bz_args.atoms[k].kind = "list"
    /\ Len(Leaves) >= 1

\* C29: in convexhull_CUR the hull distances and the weights are computed one
\* per configuration of the flattened pool: for nested input too the call gets
\* through the hull stage, and the weights and the working pool are equally
\* long at every draw.
C29_HullWeightsPerFlattenedConfiguration ==
    HullCallOnNestedPool =>
        /\ bz_pc # "AttributeError"
        /\ bz_pc = "draw" => Len(config_prob) = Len(fatoms)

=============================================================================
